---- MODULE Spec2Model ----
(***************************************************************************)
(* Version store and document aggregate of django_document_manager         *)
(* (src/django_document_manager/models/models.py).                         *)
(*                                                                         *)
(* The datastore is a READ COMMITTED relational store: a transaction's     *)
(* writes stay in the writer's private work area until the outermost       *)
(* transaction.atomic() block exits, row locks (SELECT ... FOR UPDATE and  *)
(* UPDATE) block other writers until then, and the partial unique          *)
(* constraints of Meta.constraints are enforced on every write.  Model     *)
(* managers inherited from django_crud_audit hide soft-deleted rows        *)
(* (date_deleted IS NOT NULL), as DocumentManager.get_queryset does.       *)
(***************************************************************************)
EXTENDS Integers, Sequences, FiniteSets, Bags, TLC

VARIABLES documents, versions, docLock, pc, call, outcome, blobs,
          probe, verdict, owners, osave

vars == <<documents, versions, docLock, pc, call, outcome, blobs,
          probe, verdict, owners, osave>>

\* What the document operations never touch: the argument and the result of
\* an operation applied on its own (probe, verdict), and the owner tables.
aside == <<probe, verdict, owners, osave>>

(***************************************************************************)
(* Bounds of the model.                                                    *)
(***************************************************************************)
MaxDocs == 2
MaxVersions == 2
MaxOwners == 3
MaxItems == 2

Procs == {"p1", "p2"}
NoProc == "none"

Owners == {"o1"}
Titles == {"A", "B"}
Contents == {"c1", "c2"}

MB == 1024 * 1024

(***************************************************************************)
(* File names are sequences of characters, so that splitext, lower and     *)
(* lstrip act on them as the code does.                                    *)
(***************************************************************************)
name_a_pdf == <<"a", ".", "p", "d", "f">>
name_A_PDF == <<"A", ".", "P", "D", "F">>
name_a_doc == <<"a", ".", "d", "o", "c">>

\* The uploads offered to the operations: content, file name, size in bytes.
Files ==
    { [content |-> "c1", name |-> name_a_pdf, size |-> 1 * MB],
      [content |-> "c2", name |-> name_A_PDF, size |-> 5 * MB],
      [content |-> "c1", name |-> name_a_doc, size |-> 1 * MB] }

\* The document type of the tests: PDF only, 5 MB, one document per owner.
DocTypes == {"test_limited"}

\* The DocumentType rows on file: the type of the tests, and types whose
\* file_extensions are written without the dot, in upper case, as a list of
\* two, or left empty.
TypeCodes == DocTypes \cup {"pdf_nodot", "pdf_upper", "two_ext", "unrestricted"}
file_extensions ==
    [t \in TypeCodes |->
        CASE t = "test_limited" -> << <<".", "p", "d", "f">> >>
          [] t = "pdf_nodot"    -> << <<"p", "d", "f">> >>
          [] t = "pdf_upper"    -> << <<".", "P", "D", "F">> >>
          [] t = "two_ext"      -> << <<"p", "d", "f">>, <<".", "d", "o", "c">> >>
          [] t = "unrestricted" -> << >>]
max_file_size_mb == [t \in TypeCodes |-> IF t = "two_ext" THEN 1 ELSE 5]
max_count_per_owner == [t \in TypeCodes |-> IF t = "test_limited" THEN 1 ELSE 0]

\* The files handed to DocumentVersion.clean on its own: names with and
\* without a suffix, sizes on both sides of the limits.
ProbeNames ==
    { name_a_pdf, name_A_PDF, name_a_doc, <<"a">>, <<"a", ".">>,
      <<".", "p", "d", "f">> }
ProbeSizes == {0, 1 * MB, 1 * MB + 1, 5 * MB, 5 * MB + 1, 6 * MB}
ProbeFiles ==
    {[content |-> "c1", name |-> n, size |-> z] : n \in ProbeNames, z \in ProbeSizes}

(***************************************************************************)
(* Pure helpers.                                                           *)
(***************************************************************************)
UpperToLower ==
    [c \in {"A", "P", "D", "F", "O", "C"} |->
        CASE c = "A" -> "a" [] c = "P" -> "p" [] c = "D" -> "d"
          [] c = "F" -> "f" [] c = "O" -> "o" [] c = "C" -> "c"]

\* str.lower()
Lower(s) == [i \in 1..Len(s) |-> IF s[i] \in DOMAIN UpperToLower THEN UpperToLower[s[i]] ELSE s[i]]

\* str.lstrip('.')
RECURSIVE LStripDot(_)
LStripDot(s) == IF s # <<>> /\ Head(s) = "." THEN LStripDot(Tail(s)) ELSE s

\* os.path.splitext(name)[1]: from the last dot on, unless that dot only
\* follows other leading dots.
SplitExt(s) ==
    LET dots == {i \in 1..Len(s) : s[i] = "."}
        last == IF dots = {} THEN 0 ELSE CHOOSE i \in dots : \A j \in dots : j <= i
    IN  IF last = 0 \/ (\A j \in 1..(last - 1) : s[j] = ".") THEN <<>>
        ELSE SubSeq(s, last, Len(s))

SeqRange(s) == {s[i] : i \in 1..Len(s)}

\* hashlib.sha256 over the content: distinct contents, distinct digests.
Sha256 == [c \in Contents |-> IF c = "c1" THEN "h1" ELSE "h2"]

\* Variant: the suffix is compared as it is written.
extension_allowed_case_sensitive(t, f) ==
    \/ file_extensions[t] = <<>>
    \/ LStripDot(SplitExt(f.name)) \in
            {LStripDot(Lower(e)) : e \in SeqRange(file_extensions[t])}

\* DocumentVersion.clean, "Validate file extension".
extension_allowed(t, f) ==
    LET file_extension == LStripDot(Lower(SplitExt(f.name)))
        allowed_extensions == {LStripDot(Lower(e)) : e \in SeqRange(file_extensions[t])}
    IN  file_extensions[t] = <<>> \/ file_extension \in allowed_extensions

\* DocumentVersion.clean, "Validate file size": file.size / (1024 * 1024)
\* against max_file_size_mb; the division by 2^20 is exact.
size_allowed(t, f) == ~(f.size > max_file_size_mb[t] * MB)

\* DocumentVersion.clean: the first failing check raises.
clean(t, f) ==
    IF ~extension_allowed(t, f) THEN "invalid_extension"
    ELSE IF ~size_allowed(t, f) THEN "file_too_large"
    ELSE "ok"

\* The codes carried by the ValidationError that clean raises.
clean_codes(t, f) == IF clean(t, f) = "ok" THEN {} ELSE {clean(t, f)}

(***************************************************************************)
(* Rows, work areas and views.                                             *)
(***************************************************************************)
NoFile == [content |-> "c1", name |-> <<>>, size |-> 0]

\* The call a process is executing and the local variables of its frames.
\*   op          "none", "save_new_version", "set_current_version",
\*               "create_with_file"
\*   target      row whose flag set_current_version raises (0: the pending row)
\*   existing    existing_version of save_new_version (0: None)
\*   current     current of set_current_version (0: None)
\*   ver         self.version computed by DocumentVersion.save
\*   ins, unset  uncommitted writes of the open transaction
NoCall ==
    [op |-> "none", doc |-> 0, file |-> NoFile, set_current |-> FALSE,
     strict |-> FALSE, target |-> 0, existing |-> 0, current |-> 0, ver |-> 0,
     ins |-> FALSE, unset |-> 0]

\* What the step just taken handed back to a caller, if it ended a call.
\*   call        the arguments and locals of the call as it ended
\*   result      "ok" or the error raised
\*   ret         the version row returned (0: none)
NoOutcome == [proc |-> NoProc, call |-> NoCall, result |-> "none", ret |-> 0]

DocIds == 1..Len(documents)
RowIds == 1..Len(versions)

\* The row DocumentVersion.save is about to insert for process p.
PendingRow(p) ==
    [document |-> call[p].doc, version |-> call[p].ver,
     file |-> call[p].file.content,
     file_hash |-> Sha256[call[p].file.content],
     file_size_bytes |-> call[p].file.size,
     is_current |-> FALSE, deleted |-> FALSE]

\* What process p reads: the committed rows, overlaid with its own
\* uncommitted writes.
View(p) ==
    LET base == [r \in RowIds |->
                    IF r = call[p].unset
                        THEN [versions[r] EXCEPT !.is_current = FALSE]
                        ELSE versions[r]]
    IN  IF call[p].ins THEN Append(base, PendingRow(p)) ELSE base

\* document.versions / DocumentVersion.objects: soft-deleted rows are hidden.
LiveRows(vs, d) == {r \in 1..Len(vs) : vs[r].document = d /\ ~vs[r].deleted}

SetMax(S) == CHOOSE x \in S : \A y \in S : y <= x

\* Meta.ordering = ['document', '-version']; .first()
FirstByVersion(vs, S) ==
    IF S = {} THEN 0
    ELSE CHOOSE r \in S : \A q \in S : vs[q].version <= vs[r].version

\* Document.get_current_version
get_current_version(vs, d) ==
    FirstByVersion(vs, {r \in LiveRows(vs, d) : vs[r].is_current})

\* Variant: the duplicate lookup never finds a version.
existing_version_none(vs, d, h) == 0

\* Variant: the lookup filters on the document only, not on the digest.
existing_version_any_hash(vs, d, h) ==
    FirstByVersion(vs, LiveRows(vs, d))

\* DocumentVersion.objects.filter(document=self, file_hash=file_hash).first()
existing_version(vs, d, h) ==
    FirstByVersion(vs, {r \in LiveRows(vs, d) : vs[r].file_hash = h})

\* BaseDocumentOwnerModel.get_documents: the non-deleted documents whose
\* owner_uuid is u; none for an owner without identifier.
get_documents(ds, u) ==
    IF u = "None" THEN {}
    ELSE {d \in 1..Len(ds) : ds[d].owner_uuid = u /\ ~ds[d].deleted}

\* Variant: the aggregate defaults to 1 instead of 0 when there is no version.
next_version_default_one(vs, d) ==
    (IF LiveRows(vs, d) = {} THEN 1
     ELSE SetMax({vs[r].version : r \in LiveRows(vs, d)})) + 1

\* Variant: the number skips one.
next_version_skipping(vs, d) ==
    (IF LiveRows(vs, d) = {} THEN 0
     ELSE SetMax({vs[r].version : r \in LiveRows(vs, d)})) + 2

\* DocumentVersion.save: max(version) over the non-deleted versions, or 0, + 1
next_version(vs, d) ==
    (IF LiveRows(vs, d) = {} THEN 0
     ELSE SetMax({vs[r].version : r \in LiveRows(vs, d)})) + 1

(***************************************************************************)
(* Meta.constraints, each scoped to non-deleted rows.                      *)
(***************************************************************************)
\* unique_document_version
unique_document_version(vs, row) ==
    \A r \in LiveRows(vs, row.document) : vs[r].version # row.version

\* Variant: the table without the unique_document_file_hash index.
unique_document_file_hash_dropped(vs, row) == TRUE

\* unique_document_file_hash
unique_document_file_hash(vs, row) ==
    \A r \in LiveRows(vs, row.document) : vs[r].file_hash # row.file_hash

\* Variant: the table without the unique_document_current index.
unique_document_current_dropped(vs, d) == TRUE

\* unique_document_current: vs is the table after the write
unique_document_current(vs, d) ==
    Cardinality({r \in LiveRows(vs, d) : vs[r].is_current}) <= 1

\* Variant: the constraint is not in the database.
unique_owner_document_title_unenforced(ds, owner, title) == TRUE

\* Variant: titles unique over all documents, whoever owns them.
unique_owner_document_title_any_owner(ds, owner, title) ==
    \A i \in 1..Len(ds) : ~(ds[i].title = title /\ ~ds[i].deleted)

\* unique_owner_document_title
unique_owner_document_title(ds, owner, title) ==
    \A i \in 1..Len(ds) :
        ~(ds[i].owner_uuid = owner /\ ds[i].title = title /\ ~ds[i].deleted)

(***************************************************************************)
(* Locks.                                                                  *)
(***************************************************************************)
\* Variant: a plain get() in place of select_for_update().get().
DocLockFree_unlocked(p, d) == TRUE

\* Document.objects.select_for_update().get(id=...): free, or already ours.
DocLockFree(p, d) == docLock[d] \in {NoProc, p}

\* An UPDATE of row r waits for another transaction's uncommitted UPDATE.
RowLockFree(p, r) == \A q \in Procs \ {p} : call[q].unset # r

\* Leaving the outermost atomic block releases the locks taken inside it.
Release(p) == [d \in DOMAIN docLock |-> IF docLock[d] = p THEN NoProc ELSE docLock[d]]

\* The call returns or raises: the frames' local variables are gone, the
\* caller gets the version returned or the error.
Finished(p, c, code, row) ==
    [proc |-> p, call |-> c, result |-> code, ret |-> row]

\* Variant: the exception leaves the writes made so far in the table.
Raise_not_rolled_back(p, c, code) ==
    /\ pc' = [pc EXCEPT ![p] = "idle"]
    /\ call' = [call EXCEPT ![p] = NoCall]
    /\ outcome' = Finished(p, c, code, 0)
    /\ docLock' = Release(p)
    /\ versions' = View(p)
    /\ UNCHANGED documents

\* The exception leaves every atomic block: the work area is dropped.
Raise(p, c, code) ==
    /\ pc' = [pc EXCEPT ![p] = "idle"]
    /\ call' = [call EXCEPT ![p] = NoCall]
    /\ outcome' = Finished(p, c, code, 0)
    /\ docLock' = Release(p)
    /\ UNCHANGED <<documents, versions>>

\* Normal exit of the outermost atomic block: vs becomes the committed table.
Commit(p, c, vs, row) ==
    /\ versions' = vs
    /\ pc' = [pc EXCEPT ![p] = "idle"]
    /\ call' = [call EXCEPT ![p] = NoCall]
    /\ outcome' = Finished(p, c, "ok", row)
    /\ docLock' = Release(p)
    /\ UNCHANGED documents

\* Variant: the flag is cleared in autocommit mode, outside any transaction.
InsideAtomic_autocommit(vs, r) == [vs EXCEPT ![r].is_current = FALSE]

\* A write made inside transaction.atomic() reaches the committed table only
\* when the block exits.
InsideAtomic(vs, r) == vs

\* No file is under validation; no owner instance is being saved.
NoProbe == [type |-> "test_limited", file |-> NoFile]
NoVerdict == [done |-> FALSE, codes |-> {}]
NoSave == [pc |-> "idle", model |-> "none", document_owner_uuid |-> "None",
           generated |-> FALSE, attempt |-> 0]

(***************************************************************************)
(* The state after construction: empty tables, every process idle.         *)
(***************************************************************************)
Init ==
    /\ documents = <<>>
    /\ versions = <<>>
    /\ docLock = [d \in 1..MaxDocs |-> NoProc]
    /\ pc = [p \in Procs |-> "idle"]
    /\ call = [p \in Procs |-> NoCall]
    /\ outcome = NoOutcome
    /\ blobs = {}
    /\ probe = NoProbe
    /\ verdict = NoVerdict
    /\ owners = <<>>
    /\ osave = [p \in Procs |-> NoSave]

\* The result of the call that ended last has been taken by its caller.
NothingPending == outcome = NoOutcome

\* Calls in flight that may still add a version row.
Inserting ==
    {q \in Procs : pc[q] \in {"cwf_version", "snv_save"} \/ call[q].ins}

\* set_current_version up to its first write: read the current version,
\* then go on to clear its flag, or to raise the target's flag directly.
EnterSetCurrent(p, c, view) ==
    LET current == get_current_version(view, c.doc)
    IN  /\ call' = [call EXCEPT ![p] = [c EXCEPT !.current = current]]
        /\ pc' = [pc EXCEPT ![p] = IF current # 0 THEN "scv_unset" ELSE "scv_set"]

\* save_new_version up to the duplicate decision: new_version.clean(), the
\* digest, the lookup of an existing version with that digest.
SnvEnter(p, c) ==
    LET checked == clean(documents[c.doc].document_type, c.file)
        found == existing_version(versions, c.doc, Sha256[c.file.content])
    IN  IF checked # "ok" THEN Raise(p, c, checked)
        ELSE IF found # 0 /\ c.strict THEN Raise(p, c, "duplicate")
        ELSE IF found # 0 /\ c.set_current
            THEN /\ EnterSetCurrent(p, [c EXCEPT !.existing = found,
                                                !.target = found], versions)
                 /\ outcome' = NoOutcome /\ UNCHANGED <<documents, versions, docLock>>
        ELSE IF found # 0
            THEN Commit(p, [c EXCEPT !.existing = found], versions, found)
        ELSE /\ pc' = [pc EXCEPT ![p] = "snv_save"]
             /\ call' = [call EXCEPT ![p] = c]
             /\ outcome' = NoOutcome /\ UNCHANGED <<documents, versions, docLock>>

(***************************************************************************)
(* Document.create_with_file                                               *)
(***************************************************************************)
\* The document row is saved (and committed: no transaction is open).
CallCreateWithFile(p, owner, f, t, title) ==
    /\ UNCHANGED <<blobs, aside>>
    /\ pc[p] = "idle"
    /\ NothingPending
    /\ Len(documents) < MaxDocs
    /\ Len(versions) + Cardinality(Inserting) < MaxVersions
    /\ IF unique_owner_document_title(documents, owner, title)
        THEN /\ documents' = Append(documents,
                    [owner_uuid |-> owner, document_type |-> t,
                     title |-> title, deleted |-> FALSE])
             /\ call' = [call EXCEPT ![p] =
                    [NoCall EXCEPT !.op = "create_with_file",
                                   !.doc = Len(documents) + 1,
                                   !.file = f, !.set_current = TRUE,
                                   !.strict = TRUE]]
             /\ pc' = [pc EXCEPT ![p] = "cwf_version"]
             /\ outcome' = NoOutcome
        ELSE /\ documents' = documents
             /\ call' = [call EXCEPT ![p] = NoCall]
             /\ outcome' = Finished(p, [NoCall EXCEPT !.op = "create_with_file"],
                                    "unique_owner_document_title", 0)
             /\ pc' = [pc EXCEPT ![p] = "idle"]
    /\ UNCHANGED <<versions, docLock>>

\* Variant: the first version is saved with set_current=False.
CwfVersion_not_current(p) ==
    /\ UNCHANGED <<blobs, aside>>
    /\ pc[p] = "cwf_version"
    /\ NothingPending
    /\ SnvEnter(p, [call[p] EXCEPT !.set_current = FALSE])

\* version = document.save_new_version(file, set_current=True)
CwfVersion(p) ==
    /\ UNCHANGED <<blobs, aside>>
    /\ pc[p] = "cwf_version"
    /\ NothingPending
    /\ SnvEnter(p, call[p])

(***************************************************************************)
(* Document.save_new_version                                               *)
(***************************************************************************)
CallSaveNewVersion(p, d, f, set_current, strict) ==
    /\ UNCHANGED <<blobs, aside>>
    /\ pc[p] = "idle"
    /\ NothingPending
    /\ d \in DocIds
    /\ SnvEnter(p, [NoCall EXCEPT !.op = "save_new_version", !.doc = d,
                                  !.file = f, !.set_current = set_current,
                                  !.strict = strict])
    /\ pc'[p] = "snv_save" => Len(versions) + Cardinality(Inserting) < MaxVersions

\* super().save(): FileField.pre_save writes the upload to storage while the
\* INSERT is prepared, after full_clean has passed.  Storage takes no part in
\* the transaction: what is written stays.
FileSaved(p, checked) ==
    IF checked # "ok" THEN blobs
    ELSE blobs \cup {<<call[p].doc, call[p].file.content>>}

\* new_version.save(): lock the document row, compute the version number,
\* full_clean, INSERT; then set_current_version(new_version) or return.
\* Variant: the version is built with is_current=True.
built_as_current == TRUE

\* new_version = DocumentVersion(document=self, file=file, is_current=False)
built_as == FALSE

SnvSave(p) ==
    /\ UNCHANGED aside
    /\ pc[p] = "snv_save"
    /\ NothingPending
    /\ DocLockFree(p, call[p].doc)
    /\ LET d == call[p].doc
           c == [call[p] EXCEPT !.ver = next_version(versions, d)]
           checked == clean(documents[d].document_type, c.file)
           row == [document |-> d, version |-> c.ver,
                   file |-> c.file.content,
                   file_hash |-> Sha256[c.file.content],
                   file_size_bytes |-> c.file.size,
                   is_current |-> built_as, deleted |-> FALSE]
       IN  IF checked # "ok" THEN Raise(p, c, checked)
           ELSE IF ~unique_document_version(versions, row)
               THEN Raise(p, c, "unique_document_version")
           ELSE IF ~unique_document_file_hash(versions, row)
               THEN Raise(p, c, "unique_document_file_hash")
           ELSE IF c.set_current
               THEN /\ EnterSetCurrent(p, [c EXCEPT !.ins = TRUE, !.target = 0],
                                       Append(versions, row))
                    /\ docLock' = [docLock EXCEPT ![d] = p]
                    /\ outcome' = NoOutcome /\ UNCHANGED <<documents, versions>>
           ELSE Commit(p, c, Append(versions, row), Len(versions) + 1)
    /\ blobs' = FileSaved(p, clean(documents[call[p].doc].document_type, call[p].file))

(***************************************************************************)
(* Document.set_current_version                                            *)
(***************************************************************************)
\* Variant: the owner of the version is not looked at.
version_belongs_unchecked(vs, v, d) == TRUE

\* version.document_id != self.id raises ValidationError.
version_belongs(vs, v, d) == vs[v].document = d

CallSetCurrentVersion(p, d, v) ==
    /\ UNCHANGED <<blobs, aside>>
    /\ pc[p] = "idle"
    /\ NothingPending
    /\ d \in DocIds
    /\ v \in RowIds
    /\ LET c == [NoCall EXCEPT !.op = "set_current_version", !.doc = d,
                               !.target = v]
       IN  IF ~version_belongs(versions, v, d)
               THEN Raise(p, c, "version_mismatch")
               ELSE /\ EnterSetCurrent(p, c, versions)
                    /\ outcome' = NoOutcome /\ UNCHANGED <<documents, versions, docLock>>

\* current.is_current = False; current.save(update_fields=['is_current'])
ScvUnset(p) ==
    /\ UNCHANGED <<blobs, aside>>
    /\ pc[p] = "scv_unset"
    /\ NothingPending
    /\ RowLockFree(p, call[p].current)
    /\ versions' = InsideAtomic(versions, call[p].current)
    /\ call' = [call EXCEPT ![p].unset = call[p].current]
    /\ pc' = [pc EXCEPT ![p] = "scv_set"]
    /\ outcome' = NoOutcome /\ UNCHANGED <<documents, docLock>>

\* Variant: the target's flag is never raised.
WithCurrent_not_raised(p) == View(p)

\* The table as process p's transaction leaves it: its own writes, and the
\* flag of its target row raised.
WithCurrent(p) ==
    LET own == View(p)
        t == IF call[p].target = 0 THEN Len(own) ELSE call[p].target
    IN  [own EXCEPT ![t].is_current = TRUE]

\* version.is_current = True; version.save(update_fields=['is_current']),
\* then the exit of the atomic blocks.
ScvSet(p) ==
    /\ UNCHANGED <<blobs, aside>>
    /\ pc[p] = "scv_set"
    /\ NothingPending
    /\ call[p].target # 0 => RowLockFree(p, call[p].target)
    /\ LET after == WithCurrent(p)
           row == IF call[p].target = 0 THEN Len(after) ELSE call[p].target
       IN  IF after[row].deleted \/ unique_document_current(after, call[p].doc)
               THEN Commit(p, call[p], after, row)
               ELSE Raise(p, call[p], "unique_document_current")

(***************************************************************************)
(* BaseModel.delete on a version: the row stays, date_deleted is set.      *)
(***************************************************************************)
SoftDeleteVersion(r) ==
    /\ UNCHANGED <<blobs, aside>>
    /\ r \in RowIds
    /\ NothingPending
    /\ ~versions[r].deleted
    /\ \A q \in Procs : call[q].unset # r
    /\ versions' = [versions EXCEPT ![r].deleted = TRUE]
    /\ outcome' = NoOutcome /\ UNCHANGED <<documents, docLock, pc, call>>

\* The caller takes what its call handed back.
Return ==
    /\ UNCHANGED <<blobs, aside>>
    /\ outcome # NoOutcome
    /\ outcome' = NoOutcome
    /\ UNCHANGED <<documents, versions, docLock, pc, call>>

Step(p) ==
    \/ \E o \in Owners, f \in Files, t \in DocTypes, ti \in Titles :
            CallCreateWithFile(p, o, f, t, ti)
    \/ CwfVersion(p)
    \/ \E d \in 1..MaxDocs, f \in Files, sc \in BOOLEAN, st \in BOOLEAN :
            CallSaveNewVersion(p, d, f, sc, st)
    \/ SnvSave(p)
    \/ \E d \in 1..MaxDocs, v \in 1..MaxVersions : CallSetCurrentVersion(p, d, v)
    \/ ScvUnset(p)
    \/ ScvSet(p)

(***************************************************************************)
(* Spec: the request handlers run the operations concurrently.             *)
(***************************************************************************)
Next ==
    \/ \E p \in Procs : Step(p)
    \/ Return

Spec == Init /\ [][Next]_vars

(***************************************************************************)
(* SpecSeq: one caller runs the operations one after the other, and        *)
(* versions are soft-deleted in between.                                   *)
(***************************************************************************)
Client == "p1"

NextSeq ==
    \/ Step(Client)
    \/ \E r \in 1..MaxVersions : SoftDeleteVersion(r)
    \/ Return

SpecSeq == Init /\ [][NextSeq]_vars

(***************************************************************************)
(* SpecPerOwner: one caller creates documents for two owners.              *)
(***************************************************************************)
OwnerPair == {"o1", "o2"}

NextPerOwner ==
    \/ \E o \in OwnerPair, f \in Files, t \in DocTypes, ti \in Titles :
            CallCreateWithFile(Client, o, f, t, ti)
    \/ CwfVersion(Client)
    \/ SnvSave(Client)
    \/ ScvSet(Client)
    \/ Return

SpecPerOwner == Init /\ [][NextPerOwner]_vars

(***************************************************************************)
(* SpecOwners: owner entities of two concrete classes are saved for the    *)
(* first time by concurrent sessions.  Each statement of save() runs in    *)
(* autocommit mode.                                                        *)
(***************************************************************************)
\* The concrete owner classes, each with its own table.
OwnerModels == {"TestCompany", "TestPerson"}

\* The values _generate_uuid7() can return; "None" is the unset field.
Uuids == {"u1", "u2"}

max_attempts == 10

\* TestCompany.name, a field beside the identifier; its default.
Names == {"n1", "n2"}
DefaultName == "n1"

\* self.__class__.objects.filter(document_owner_uuid=u).exists(): the table
\* of the instance's own class is searched.
uuid_exists(rows, m, u) ==
    \E i \in 1..Len(rows) : rows[i].model = m /\ rows[i].document_owner_uuid = u

\* Variant: the table carries no unique constraint.
u_doc_uuid_dropped(rows, m, u) == TRUE

\* Meta.constraints u_doc_<app>_<class>_uuid: unique among the rows of one
\* class whose identifier is not null.
u_doc_uuid(rows, m, u) == u = "None" \/ ~uuid_exists(rows, m, u)

\* Saves in flight.
Saving == {q \in Procs : osave[q].pc \in {"check", "insert"}}

\* instance = Model(...); instance.save(), with the identifier passed to the
\* constructor (given) or left unset: save() then generates one.
OwnerSave(p, m, given) ==
    /\ osave[p].pc \notin {"check", "insert"}
    /\ Len(owners) + Cardinality(Saving) < MaxOwners
    /\ IF given # "None"
        THEN osave' = [osave EXCEPT ![p] =
                [pc |-> "insert", model |-> m, document_owner_uuid |-> given,
                 generated |-> FALSE, attempt |-> 0]]
        ELSE \E g \in Uuids :
                osave' = [osave EXCEPT ![p] =
                    [pc |-> "check", model |-> m, document_owner_uuid |-> g,
                     generated |-> TRUE, attempt |-> 0]]
    /\ UNCHANGED <<documents, versions, docLock, pc, call, outcome, blobs,
                   probe, verdict, owners>>

\* One turn of the while loop: the exists() query, then break, or a new
\* identifier and attempt += 1; ValidationError once attempt reaches
\* max_attempts.
OwnerCheck(p) ==
    /\ osave[p].pc = "check"
    /\ IF ~uuid_exists(owners, osave[p].model, osave[p].document_owner_uuid)
        THEN osave' = [osave EXCEPT ![p].pc = "insert"]
        ELSE \E g \in Uuids :
                osave' = [osave EXCEPT ![p] =
                    [@ EXCEPT !.document_owner_uuid = g,
                              !.attempt = @ + 1,
                              !.pc = IF osave[p].attempt + 1 >= max_attempts
                                         THEN "unable_to_generate" ELSE "check"]]
    /\ UNCHANGED <<documents, versions, docLock, pc, call, outcome, blobs,
                   probe, verdict, owners>>

\* super().save(): the INSERT, refused by the class's unique constraint.
OwnerInsert(p) ==
    /\ osave[p].pc = "insert"
    /\ IF u_doc_uuid(owners, osave[p].model, osave[p].document_owner_uuid)
        THEN /\ owners' = Append(owners,
                    [model |-> osave[p].model,
                     document_owner_uuid |-> osave[p].document_owner_uuid,
                     generated |-> osave[p].generated,
                     name |-> DefaultName])
             /\ osave' = [osave EXCEPT ![p].pc = "saved"]
        ELSE /\ owners' = owners
             /\ osave' = [osave EXCEPT ![p].pc = "integrity_error"]
    /\ UNCHANGED <<documents, versions, docLock, pc, call, outcome, blobs,
                   probe, verdict>>

NextOwners ==
    \E p \in Procs :
        \/ \E m \in OwnerModels, given \in Uuids \cup {"None"} : OwnerSave(p, m, given)
        \/ OwnerCheck(p)
        \/ OwnerInsert(p)

SpecOwners == Init /\ [][NextOwners]_vars

(***************************************************************************)
(* SpecOwnerUpdate: owner tables as the saves leave them are rewritten in   *)
(* bulk.  An update request maps field names to the values asked for.      *)
(***************************************************************************)
\* The rows a save can have stored.
SavedRows ==
    [model : OwnerModels, document_owner_uuid : Uuids, generated : BOOLEAN,
     name : {DefaultName}]

\* The tables the saves can have left: at most MaxOwners rows, identifiers
\* unique within each class.
SavedTables ==
    {t \in UNION {[1..n -> SavedRows] : n \in 0..MaxOwners} :
        \A i, j \in DOMAIN t :
            (i # j /\ t[i].model = t[j].model)
            => t[i].document_owner_uuid # t[j].document_owner_uuid}

InitOwnerUpdate ==
    /\ documents = <<>>
    /\ versions = <<>>
    /\ docLock = [d \in 1..MaxDocs |-> NoProc]
    /\ pc = [p \in Procs |-> "idle"]
    /\ call = [p \in Procs |-> NoCall]
    /\ outcome = NoOutcome
    /\ blobs = {}
    /\ probe = NoProbe
    /\ verdict = NoVerdict
    /\ owners \in SavedTables
    /\ osave = [p \in Procs |-> NoSave]

OwnerFields == {"name", "document_owner_uuid"}

\* The requests: a new name, a new identifier, or both.
UpdateRequests ==
    {[f \in {"name"} |-> n] : n \in Names}
        \cup {[f \in {"document_owner_uuid"} |-> u] : u \in Uuids}
        \cup {[f \in OwnerFields |-> IF f = "name" THEN n ELSE u] :
                    n \in Names, u \in Uuids}

\* Variant: the request is passed on as it came.
without_uuid_kept(kwargs) == kwargs

\* del kwargs['document_owner_uuid'] / [f for f in fields if f != 'document_owner_uuid']
without_uuid(kwargs) ==
    [f \in (DOMAIN kwargs) \ {"document_owner_uuid"} |-> kwargs[f]]

\* UPDATE ... SET: the row with the fields of the request overwritten.
row_updated(row, kwargs) ==
    [f \in DOMAIN row |-> IF f \in DOMAIN kwargs THEN kwargs[f] ELSE row[f]]

\* Model.objects.update(**kwargs): every row of the class, one statement.
owner_update(rows, m, kwargs) ==
    [i \in 1..Len(rows) |->
        IF rows[i].model = m
            THEN row_updated(rows[i], without_uuid(kwargs)) ELSE rows[i]]

\* Model.objects.bulk_update(objs, fields): objs are the instances with the
\* primary keys in pks, each carrying the values of obj; QuerySet.bulk_update
\* raises ValueError when no field name is left.
owner_bulk_update(rows, pks, obj) ==
    LET fields == DOMAIN without_uuid(obj)
    IN  [i \in 1..Len(rows) |->
            IF i \in pks /\ fields # {}
                THEN row_updated(rows[i], [f \in fields |-> obj[f]])
                ELSE rows[i]]

OwnerUpdate(m, kwargs) ==
    /\ owners # <<>>
    /\ owners' = owner_update(owners, m, kwargs)
    /\ UNCHANGED <<documents, versions, docLock, pc, call, outcome, blobs,
                   probe, verdict, osave>>

OwnerBulkUpdate(m, pks, obj) ==
    /\ pks # {}
    /\ \A i \in pks : i \in 1..Len(owners) /\ owners[i].model = m
    /\ owners' = owner_bulk_update(owners, pks, obj)
    /\ UNCHANGED <<documents, versions, docLock, pc, call, outcome, blobs,
                   probe, verdict, osave>>

NextOwnerUpdate ==
    \/ \E m \in OwnerModels, kwargs \in UpdateRequests : OwnerUpdate(m, kwargs)
    \/ \E m \in OwnerModels, pks \in SUBSET (1..MaxOwners), obj \in UpdateRequests :
            OwnerBulkUpdate(m, pks, obj)

SpecOwnerUpdate == InitOwnerUpdate /\ [][NextOwnerUpdate]_vars

(***************************************************************************)
(* SpecInGroups: DocumentQuerySet.in_groups applied to one argument, over  *)
(* three documents: 1 in groups g1 and g2, 2 in group g2, 3 in no group.   *)
(* Group g3 has no document.                                               *)
(***************************************************************************)
GroupUuids == {"g1", "g2", "g3"}
GroupedDocs == {1, 2, 3, 4}
DocGroups == [d \in GroupedDocs |->
                 CASE d = 1 -> {"g1", "g2"} [] d = 2 -> {"g2"} [] d = 3 -> {}
                   [] d = 4 -> {"g1"}]

\* Document 4 is soft-deleted; Document.objects hides it.
DeletedDocs == {4}
get_queryset == GroupedDocs \ DeletedDocs

\* uuid.UUID(text): the identifier written by the text, or "ValueError".
\* The canonical form and the form in braces are both read.
UuidStrings == {"g1-text", "{g1-text}", "g2-text", "not-a-uuid"}
ParseUuid(text) ==
    CASE text \in {"g1-text", "{g1-text}"} -> "g1"
      [] text = "g2-text" -> "g2"
      [] OTHER -> "ValueError"

\* The elements a list can hold: tagged with their Python type.
GroupItems ==
    {[type |-> "DocumentGroup", value |-> "g1"],
     [type |-> "DocumentGroup", value |-> "g2"],
     [type |-> "UUID", value |-> "g1"],
     [type |-> "UUID", value |-> "g2"],
     [type |-> "UUID", value |-> "g9"],
     [type |-> "str", value |-> "{g1-text}"],
     [type |-> "str", value |-> "not-a-uuid"],
     [type |-> "int", value |-> "123"]}

\* The arguments: a list or tuple of up to MaxItems elements, a queryset of
\* groups (its rows), one group instance, or something else.
GroupArguments ==
    [type : {"list", "tuple"},
     value : UNION {[1..n -> GroupItems] : n \in 0..MaxItems}]
        \cup [type : {"QuerySet"}, value : SUBSET GroupUuids]
        \cup [type : {"DocumentGroup"}, value : GroupUuids]
        \cup {[type |-> "int", value |-> "123"],
               [type |-> "str", value |-> "g1-text"]}

\* self.filter(groups__group_uuid__in=uuids): the join of the documents of
\* the queryset with their groups, one row for each group of a document that
\* is among uuids.
joined(uuids) ==
    [d \in {e \in get_queryset : DocGroups[e] \cap uuids # {}} |->
        Cardinality(DocGroups[d] \cap uuids)]

\* Variant: the rows of the join are returned as they are.
distinct_dropped(rows) == rows

\* .distinct()
distinct(rows) == SetToBag(BagToSet(rows))

\* self.filter(groups__group_uuid__in=uuids).distinct()
filter_in(uuids) == distinct(joined(uuids))

\* What in_groups hands back: the rows of the result (a bag of documents), or
\* a ValueError whose message shows an index and a text.
Found(docs) == [error |-> "none", index |-> -1, shown |-> "", docs |-> docs]
Refused(idx, text) ==
    [error |-> "ValueError", index |-> idx, shown |-> text, docs |-> EmptyBag]

\* The element is refused: a string that does not parse, or another type.
bad_item(e) ==
    \/ e.type = "str" /\ ParseUuid(e.value) = "ValueError"
    \/ e.type \notin {"DocumentGroup", "UUID", "str"}

\* Variant: an empty list is passed on to the filter of every document.
empty_list_unfiltered == Found(SetToBag(get_queryset))

\* if not groups: return self.none()
empty_list == Found(EmptyBag)

\* Variant: an element that is refused is skipped.
validated_skipping(items) ==
    Found(filter_in({IF e.type = "str" THEN ParseUuid(e.value) ELSE e.value :
                        e \in {items[i] : i \in {j \in 1..Len(items) : ~bad_item(items[j])}}}))

\* The loop over the elements: the first refused element raises, with its
\* index and, for a string, its text, for another type, the type's name.
validated(items) ==
    LET bad == {i \in 1..Len(items) : bad_item(items[i])}
        first == CHOOSE i \in bad : \A j \in bad : i <= j
    IN  IF bad # {}
            THEN Refused(first - 1,
                         IF items[first].type = "str" THEN items[first].value
                         ELSE items[first].type)
            ELSE Found(filter_in({IF items[i].type = "str"
                                     THEN ParseUuid(items[i].value)
                                     ELSE items[i].value : i \in 1..Len(items)}))

\* DocumentQuerySet.in_groups
in_groups(groups) ==
    CASE groups.type = "QuerySet" ->
            IF groups.value = {} THEN Found(EmptyBag) ELSE Found(filter_in(groups.value))
      [] groups.type = "DocumentGroup" -> Found(filter_in({groups.value}))
      [] groups.type \notin {"list", "tuple"} -> Refused(-1, groups.type)
      [] groups.value = <<>> -> empty_list
      [] OTHER -> validated(groups.value)

InitInGroups ==
    /\ documents = <<>>
    /\ versions = <<>>
    /\ docLock = [d \in 1..MaxDocs |-> NoProc]
    /\ pc = [p \in Procs |-> "idle"]
    /\ call = [p \in Procs |-> NoCall]
    /\ outcome = NoOutcome
    /\ blobs = {}
    /\ probe \in GroupArguments
    /\ verdict = NoVerdict
    /\ owners = <<>>
    /\ osave = [p \in Procs |-> NoSave]

\* Document.objects.in_groups(groups)
CallInGroups ==
    /\ ~verdict.done
    /\ verdict' = [done |-> TRUE, codes |-> {}, result |-> in_groups(probe)]
    /\ UNCHANGED <<documents, versions, docLock, pc, call, outcome, blobs,
                   probe, owners, osave>>

SpecInGroups == InitInGroups /\ [][CallInGroups]_vars

(***************************************************************************)
(* SpecOwnerAccess: Document.owner read on one document instance, while    *)
(* owners are deleted out-of-band and the instance is given new owners.    *)
(***************************************************************************)
\* What owner_content_type can be: the content type of an owner class, a
\* content type whose model class is gone (model_class() returns None), or
\* not set on the instance (reading it raises RelatedObjectDoesNotExist).
ContentTypes == OwnerModels \cup {"stale", "unset"}

\* hasattr(self, '_owner_cache') is false
NotCached == [model |-> "-", document_owner_uuid |-> "-"]
\* Python's None as an owner
NoOwner == [model |-> "None", document_owner_uuid |-> "None"]

DocumentInstances ==
    [type : {"Document"}, owner_content_type : ContentTypes, owner_uuid : Uuids,
     owner_cache : {NotCached}]

\* model_class.objects.get(document_owner_uuid=u)
objects_get(rows, m, u) ==
    LET hits == {i \in DOMAIN rows : /\ rows[i].model = m
                                     /\ rows[i].document_owner_uuid = u}
    IN  IF hits = {} THEN [raised |-> "DoesNotExist", value |-> NoOwner]
        ELSE IF Cardinality(hits) > 1
             THEN [raised |-> "MultipleObjectsReturned", value |-> NoOwner]
        ELSE [raised |-> "", value |-> [model |-> m, document_owner_uuid |-> u]]

\* The body of the try block
resolve_owner(rows, doc) ==
    IF doc.owner_content_type = "unset"
    THEN [raised |-> "RelatedObjectDoesNotExist", value |-> NoOwner]
    ELSE IF doc.owner_content_type = "stale"
         THEN [raised |-> "", value |-> NoOwner]
    ELSE objects_get(rows, doc.owner_content_type, doc.owner_uuid)

\* Variant: only a missing owner is caught, any other exception propagates.
caught_only_missing(r) ==
    IF r.raised = "DoesNotExist" THEN [raised |-> "", value |-> NoOwner] ELSE r

\* except (AttributeError, Exception): log, cache None, return None
caught(r) == [raised |-> "", value |-> NoOwner]

\* Document.owner: the result and whether it came from the cache
owner(rows, doc) ==
    IF doc.owner_cache # NotCached
    THEN [raised |-> "", value |-> doc.owner_cache, cached |-> TRUE]
    ELSE LET r == resolve_owner(rows, doc)
             s == IF r.raised # "" THEN caught(r) ELSE r
         IN  [raised |-> s.raised, value |-> s.value, cached |-> FALSE]

InitOwnerAccess ==
    /\ documents = <<>>
    /\ versions = <<>>
    /\ docLock = [d \in 1..MaxDocs |-> NoProc]
    /\ pc = [p \in Procs |-> "idle"]
    /\ call = [p \in Procs |-> NoCall]
    /\ outcome = NoOutcome
    /\ blobs = {}
    /\ probe \in DocumentInstances
    /\ verdict = NoVerdict
    /\ owners \in SavedTables
    /\ osave = [p \in Procs |-> NoSave]

\* document.owner
AccessOwner ==
    LET r == owner(owners, probe)
    IN  /\ verdict' = [done |-> TRUE, codes |-> {}, result |-> r]
        /\ probe' = IF r.raised = "" THEN [probe EXCEPT !.owner_cache = r.value]
                    ELSE probe
        /\ UNCHANGED <<documents, versions, docLock, pc, call, outcome, blobs,
                       owners, osave>>

\* An owner entity is deleted; nothing cascades to the documents.
OwnerDeleted(i) ==
    /\ i \in DOMAIN owners
    /\ owners' = [j \in 1..(Len(owners) - 1) |->
                    IF j < i THEN owners[j] ELSE owners[j + 1]]
    /\ verdict' = NoVerdict
    /\ UNCHANGED <<documents, versions, docLock, pc, call, outcome, blobs,
                   probe, osave>>

\* Variant: set_owner leaves the cached owner on the instance.
cache_kept(doc) == doc

\* if hasattr(self, '_owner_cache'): delattr(self, '_owner_cache')
cache_cleared(doc) == [doc EXCEPT !.owner_cache = NotCached]

\* document.set_owner(owner_instance); the step records what the instance had
\* cached and the owner it was given.
SetOwner(i) ==
    /\ i \in DOMAIN owners
    /\ probe' = cache_cleared(
                    [probe EXCEPT !.owner_content_type = owners[i].model,
                                  !.owner_uuid = owners[i].document_owner_uuid])
    /\ verdict' = [done |-> FALSE, codes |-> {},
                   set_owner |-> [was |-> probe.owner_cache, to |-> owners[i]]]
    /\ UNCHANGED <<documents, versions, docLock, pc, call, outcome, blobs,
                   owners, osave>>

NextOwnerAccess ==
    \/ AccessOwner
    \/ \E i \in 1..MaxOwners : OwnerDeleted(i)
    \/ \E i \in 1..MaxOwners : SetOwner(i)

SpecOwnerAccess == InitOwnerAccess /\ [][NextOwnerAccess]_vars


(***************************************************************************)
(* SpecAccessors: the sequential caller of SpecSeq, who also reads the     *)
(* versions of a document through the accessors of Document.               *)
(***************************************************************************)
\* Variant: the lookup by number also sees soft-deleted versions.
get_version_with_deleted(vs, d, n) ==
    FirstByVersion(vs, {r \in 1..Len(vs) : vs[r].document = d /\ vs[r].version = n})

\* Document.get_latest_version_number
get_latest_version_number(vs, d) ==
    IF LiveRows(vs, d) = {} THEN 0
    ELSE SetMax({vs[r].version : r \in LiveRows(vs, d)})

\* Document.get_version
get_version(vs, d, n) ==
    FirstByVersion(vs, {r \in LiveRows(vs, d) : vs[r].version = n})

\* Document.get_num_versions
get_num_versions(vs, d) == Cardinality(LiveRows(vs, d))

\* Document.get_latest_version
get_latest_version(vs, d) == get_version(vs, d, get_latest_version_number(vs, d))

\* An accessor hands back ret (a version row, 0 for None, or a number) and
\* writes nothing.
Accessed(op, d, n, ret) ==
    /\ NothingPending
    /\ d \in DocIds
    /\ outcome' = [proc |-> Client,
                   call |-> [NoCall EXCEPT !.op = op, !.doc = d, !.target = n],
                   result |-> "ok", ret |-> ret]
    /\ UNCHANGED <<documents, versions, docLock, pc, call, blobs, aside>>

GetLatestVersionNumber(d) ==
    Accessed("get_latest_version_number", d, 0, get_latest_version_number(versions, d))

GetVersion(d, n) == Accessed("get_version", d, n, get_version(versions, d, n))

GetCurrentVersion(d) ==
    Accessed("get_current_version", d, 0, get_current_version(versions, d))

GetNumVersions(d) == Accessed("get_num_versions", d, 0, get_num_versions(versions, d))

GetLatestVersion(d) ==
    Accessed("get_latest_version", d, 0, get_latest_version(versions, d))

NextAccessors ==
    \/ Step(Client)
    \/ \E r \in 1..MaxVersions : SoftDeleteVersion(r)
    \/ Return
    \/ \E d \in 1..MaxDocs : GetLatestVersionNumber(d)
    \/ \E d \in 1..MaxDocs, n \in 1..MaxVersions : GetVersion(d, n)
    \/ \E d \in 1..MaxDocs : GetCurrentVersion(d)
    \/ \E d \in 1..MaxDocs : GetNumVersions(d)
    \/ \E d \in 1..MaxDocs : GetLatestVersion(d)

SpecAccessors == Init /\ [][NextAccessors]_vars


(***************************************************************************)
(* SpecTitles: two request handlers create documents for two owners, and   *)
(* documents are soft-deleted in between.                                  *)
(***************************************************************************)
\* BaseModel.delete on a document no call is working on: the row stays,
\* date_deleted is set.
SoftDeleteDocument(d) ==
    /\ UNCHANGED <<blobs, aside>>
    /\ d \in DocIds
    /\ NothingPending
    /\ ~documents[d].deleted
    /\ \A q \in Procs : call[q].doc # d
    /\ documents' = [documents EXCEPT ![d].deleted = TRUE]
    /\ outcome' = NoOutcome /\ UNCHANGED <<versions, docLock, pc, call>>

NextTitles ==
    \/ \E p \in Procs, o \in OwnerPair, f \in Files, t \in DocTypes, ti \in Titles :
            CallCreateWithFile(p, o, f, t, ti)
    \/ \E p \in Procs : CwfVersion(p)
    \/ \E p \in Procs : SnvSave(p)
    \/ \E p \in Procs : ScvSet(p)
    \/ \E d \in 1..MaxDocs : SoftDeleteDocument(d)
    \/ Return

SpecTitles == Init /\ [][NextTitles]_vars


(***************************************************************************)
(* SpecVersionSave: the sequential caller of SpecSeq, who also saves       *)
(* DocumentVersion instances it has built itself.                          *)
(***************************************************************************)
\* What a caller can have set on the instance before save(): "" and 0 stand
\* for a field left unset.
PresetHashes == {"", "h2"}
PresetSizes == {0, 7}
PresetVersions == {0, 2}

\* if self.file and not self.file_hash: size and hash are computed
computed_metadata(f, h, s) ==
    IF h = "" THEN [file_hash |-> Sha256[f.content], file_size_bytes |-> f.size]
    ELSE [file_hash |-> h, file_size_bytes |-> s]

\* if not self.version and self.document_id: max + 1 under the document lock
computed_version(vs, d, v) == IF v = 0 THEN next_version(vs, d) ELSE v

\* DocumentVersion(document=d, file=f, is_current=False, file_hash=h,
\*                 file_size_bytes=s, version=v).save()
VersionSave(d, f, h, s, v) ==
    /\ UNCHANGED aside
    /\ pc[Client] = "idle"
    /\ NothingPending
    /\ d \in DocIds
    /\ Len(versions) + Cardinality(Inserting) < MaxVersions
    /\ LET meta == computed_metadata(f, h, s)
           c == [NoCall EXCEPT !.op = "save", !.doc = d, !.file = f,
                               !.ver = computed_version(versions, d, v)]
           checked == clean(documents[d].document_type, f)
           row == [document |-> d, version |-> c.ver,
                   file |-> f.content,
                   file_hash |-> meta.file_hash,
                   file_size_bytes |-> meta.file_size_bytes,
                   is_current |-> FALSE, deleted |-> FALSE]
       IN  /\ IF checked # "ok" THEN Raise(Client, c, checked)
              ELSE IF meta.file_size_bytes = 0
                  THEN Raise(Client, c, "not_null")
              ELSE IF ~unique_document_version(versions, row)
                  THEN Raise(Client, c, "unique_document_version")
              ELSE IF ~unique_document_file_hash(versions, row)
                  THEN Raise(Client, c, "unique_document_file_hash")
              ELSE Commit(Client, c, Append(versions, row), Len(versions) + 1)
           /\ blobs' = IF checked # "ok" THEN blobs
                       ELSE blobs \cup {<<d, f.content>>}

NextVersionSave ==
    \/ \E o \in Owners, f \in Files, t \in DocTypes, ti \in Titles :
            CallCreateWithFile(Client, o, f, t, ti)
    \/ CwfVersion(Client)
    \/ \E d \in 1..MaxDocs, f \in Files, sc \in BOOLEAN :
            CallSaveNewVersion(Client, d, f, sc, TRUE)
    \/ SnvSave(Client)
    \/ ScvUnset(Client)
    \/ ScvSet(Client)
    \/ \E r \in 1..MaxVersions : SoftDeleteVersion(r)
    \/ Return
    \/ \E d \in 1..MaxDocs, f \in Files, h \in PresetHashes, s \in PresetSizes,
          v \in PresetVersions : VersionSave(d, f, h, s, v)

SpecVersionSave == Init /\ [][NextVersionSave]_vars


(***************************************************************************)
(* SpecByCode: one caller creates documents, naming the document type by   *)
(* its code.                                                               *)
(***************************************************************************)
\* The codes a caller can pass: those of the stored types, and one that no
\* DocumentType carries.
Codes == DocTypes \cup {"no_such_type"}
None == "None"

\* Variant: a code that matches no type yields a stored type.
get_by_code_defaulting(code) ==
    IF code \in DocTypes THEN code ELSE CHOOSE t \in DocTypes : TRUE

\* DocumentType.get_by_code, as create_with_file relies on it: the type with
\* that code, or None.
get_by_code(code) == IF code \in DocTypes THEN code ELSE None

\* Document.create_with_file(owner, file, document_type=<code>, title)
CreateWithFileByCode(p, o, f, code, title) ==
    IF get_by_code(code) = None
    THEN /\ UNCHANGED <<blobs, aside>>
         /\ pc[p] = "idle"
         /\ NothingPending
         /\ Raise(p, [NoCall EXCEPT !.op = "create_with_file", !.file = f],
                  "invalid_document_type")
    ELSE CallCreateWithFile(p, o, f, get_by_code(code), title)

NextByCode ==
    \/ \E o \in OwnerPair, f \in Files, code \in Codes, ti \in Titles :
            CreateWithFileByCode(Client, o, f, code, ti)
    \/ CwfVersion(Client)
    \/ SnvSave(Client)
    \/ ScvSet(Client)
    \/ Return

SpecByCode == Init /\ [][NextByCode]_vars


(***************************************************************************)
(* SpecUpdateOrCreate: Model.objects.update_or_create on stored owners.    *)
(***************************************************************************)
\* The lookups: by name or by identifier.
Lookups ==
    {[f \in {"name"} |-> n] : n \in Names}
        \cup {[f \in {"document_owner_uuid"} |-> u] : u \in Uuids}

\* The defaults: none, the fields of an update request, or an identifier
\* given as None.
Defaults ==
    UpdateRequests \cup {<<>>}
        \cup {[f \in {"document_owner_uuid"} |-> None]}
        \cup {[f \in OwnerFields |-> IF f = "name" THEN n ELSE None] : n \in Names}

\* The defaults as the overrides hand them to QuerySet.update_or_create: a
\* generated identifier is added when neither defaults nor the lookup names
\* one, and an identifier given as None is removed.
prepared_defaults(defaults, kwargs, fresh) ==
    LET named == "document_owner_uuid" \in (DOMAIN defaults) \cup (DOMAIN kwargs)
        added == IF named THEN defaults
                 ELSE [f \in (DOMAIN defaults) \cup {"document_owner_uuid"} |->
                          IF f = "document_owner_uuid" THEN fresh ELSE defaults[f]]
    IN  IF "document_owner_uuid" \in DOMAIN added
           /\ added["document_owner_uuid"] = None
        THEN without_uuid(added) ELSE added

\* The rows of class m the lookup matches.
matching(rows, m, kwargs) ==
    {i \in 1..Len(rows) :
        /\ rows[i].model = m
        /\ \A f \in DOMAIN kwargs : rows[i][f] = kwargs[f]}

\* QuerySet.update_or_create: get the row the lookup matches, set every
\* default on it and save it; create it from lookup and defaults when there
\* is none (save() generates the identifier the row is created with when
\* none is given).  MultipleObjectsReturned, IntegrityError and a save that
\* finds its identifiers taken leave the table as it was.
owner_update_or_create(rows, m, kwargs, defaults, fresh) ==
    LET d == prepared_defaults(defaults, kwargs, fresh)
        hit == matching(rows, m, kwargs)
    IN  IF Cardinality(hit) > 1 THEN rows
        ELSE IF Cardinality(hit) = 1
        THEN LET i == CHOOSE j \in hit : TRUE
                 row == row_updated(rows[i], d)
             IN  IF \E j \in 1..Len(rows) :
                        /\ j # i /\ rows[j].model = m
                        /\ rows[j].document_owner_uuid = row.document_owner_uuid
                 THEN rows
                 ELSE [rows EXCEPT ![i] = row]
        ELSE LET given == [f \in (DOMAIN kwargs) \cup (DOMAIN d) |->
                              IF f \in DOMAIN d THEN d[f] ELSE kwargs[f]]
                 row == [model |-> m,
                         document_owner_uuid |->
                            IF "document_owner_uuid" \in DOMAIN given
                            THEN given["document_owner_uuid"] ELSE fresh,
                         generated |-> "document_owner_uuid" \notin
                                          (DOMAIN defaults) \cup (DOMAIN kwargs),
                         name |-> IF "name" \in DOMAIN given THEN given["name"]
                                  ELSE DefaultName]
             IN  IF u_doc_uuid(rows, m, row.document_owner_uuid)
                 THEN Append(rows, row) ELSE rows

OwnerUpdateOrCreate(m, kwargs, defaults, fresh) ==
    /\ matching(owners, m, kwargs) = {} => Len(owners) < MaxOwners
    /\ owners' = owner_update_or_create(owners, m, kwargs, defaults, fresh)
    /\ UNCHANGED <<documents, versions, docLock, pc, call, outcome, blobs,
                   probe, verdict, osave>>

NextUpdateOrCreate ==
    \E m \in OwnerModels, kwargs \in Lookups, defaults \in Defaults, fresh \in Uuids :
        OwnerUpdateOrCreate(m, kwargs, defaults, fresh)

SpecUpdateOrCreate == InitOwnerUpdate /\ [][NextUpdateOrCreate]_vars


(***************************************************************************)
(* SpecOwnerUuid: one owner instance in memory, on which                   *)
(* get_or_create_document_owner_uuid, save and refresh_from_db are called, *)
(* among stored owners some of which have no identifier yet.               *)
(***************************************************************************)
\* Rows as a migration leaves them: the identifier may be null.
LegacyRows ==
    [model : OwnerModels, document_owner_uuid : Uuids \cup {None},
     generated : {FALSE}, name : {DefaultName}]

LegacyTables ==
    {t \in UNION {[1..n -> LegacyRows] : n \in 1..MaxOwners} :
        \A i \in DOMAIN t :
            u_doc_uuid([j \in 1..(Len(t) - 1) |-> IF j < i THEN t[j] ELSE t[j + 1]],
                       t[i].model, t[i].document_owner_uuid)}

\* The instance: the primary key of its row and the identifier it carries in
\* memory.
OwnerInstance(pk, u) == [type |-> "owner", pk |-> pk, document_owner_uuid |-> u]

InitOwnerUuid ==
    /\ documents = <<>>
    /\ versions = <<>>
    /\ docLock = [d \in 1..MaxDocs |-> NoProc]
    /\ pc = [p \in Procs |-> "idle"]
    /\ call = [p \in Procs |-> NoCall]
    /\ outcome = NoOutcome
    /\ blobs = {}
    /\ owners \in LegacyTables
    /\ \E pk \in DOMAIN owners : probe = OwnerInstance(pk, owners[pk].document_owner_uuid)
    /\ verdict = NoVerdict
    /\ osave = [p \in Procs |-> NoSave]

\* Variant: the identifier the instance carries is not looked at.
has_identifier_ignored(inst) == FALSE

\* if not self.document_owner_uuid
has_identifier(inst) == inst.document_owner_uuid # None

\* Another row of the instance's class holds identifier u.
taken_by_other(rows, inst, u) ==
    \E j \in 1..Len(rows) :
        /\ j # inst.pk
        /\ rows[j].model = rows[inst.pk].model
        /\ rows[j].document_owner_uuid = u

\* super().save(): the UPDATE of the instance's row, refused by the class's
\* unique constraint.
stored(rows, inst, u, generated) ==
    IF u # None /\ taken_by_other(rows, inst, u) THEN rows
    ELSE [rows EXCEPT ![inst.pk].document_owner_uuid = u,
                      ![inst.pk].generated = @ \/ generated]

Answered(op, codes, result) ==
    [done |-> TRUE, codes |-> codes, result |-> result, op |-> op]

\* instance.get_or_create_document_owner_uuid(); g is what _generate_uuid7()
\* returns if it is called.
GetOrCreateDocumentOwnerUuid(g) ==
    /\ IF has_identifier(probe)
       THEN /\ verdict' = Answered("get_or_create_document_owner_uuid", {},
                                    probe.document_owner_uuid)
            /\ UNCHANGED <<probe, owners>>
       ELSE /\ probe' = [probe EXCEPT !.document_owner_uuid = g]
            /\ owners' = stored(owners, probe, g, TRUE)
            /\ verdict' = IF taken_by_other(owners, probe, g)
                          THEN Answered("get_or_create_document_owner_uuid",
                                         {"IntegrityError"}, None)
                          ELSE Answered("get_or_create_document_owner_uuid", {}, g)
    /\ UNCHANGED <<documents, versions, docLock, pc, call, outcome, blobs, osave>>

\* instance.save(); g is the identifier the generation loop ends with: one
\* that no other owner of the class holds, or, after max_attempts conflicts,
\* one that is not tested any more and the save fails.
InstanceSave(g) ==
    /\ IF has_identifier(probe)
       THEN /\ probe' = probe
            /\ owners' = stored(owners, probe, probe.document_owner_uuid, FALSE)
            /\ verdict' = IF taken_by_other(owners, probe, probe.document_owner_uuid)
                          THEN Answered("save", {"IntegrityError"}, None)
                          ELSE Answered("save", {}, probe.document_owner_uuid)
       ELSE /\ probe' = [probe EXCEPT !.document_owner_uuid = g]
            /\ IF taken_by_other(owners, probe, g)
               THEN /\ owners' = owners
                    /\ verdict' = Answered("save", {"ValidationError"}, None)
               ELSE /\ owners' = stored(owners, probe, g, TRUE)
                    /\ verdict' = Answered("save", {}, g)
    /\ UNCHANGED <<documents, versions, docLock, pc, call, outcome, blobs, osave>>

\* instance.refresh_from_db()
RefreshFromDb ==
    /\ probe' = [probe EXCEPT !.document_owner_uuid =
                                    owners[probe.pk].document_owner_uuid]
    /\ verdict' = NoVerdict
    /\ UNCHANGED <<documents, versions, docLock, pc, call, outcome, blobs,
                   owners, osave>>

\* Another session gives the instance's row an identifier while the instance
\* in memory still has none.
PopulatedElsewhere(g) ==
    /\ owners[probe.pk].document_owner_uuid = None
    /\ ~taken_by_other(owners, probe, g)
    /\ owners' = stored(owners, probe, g, TRUE)
    /\ verdict' = NoVerdict
    /\ UNCHANGED <<documents, versions, docLock, pc, call, outcome, blobs,
                   probe, osave>>

NextOwnerUuid ==
    \/ \E g \in Uuids : GetOrCreateDocumentOwnerUuid(g)
    \/ \E g \in Uuids : InstanceSave(g)
    \/ RefreshFromDb
    \/ \E g \in Uuids : PopulatedElsewhere(g)

SpecOwnerUuid == InitOwnerUuid /\ [][NextOwnerUuid]_vars


(***************************************************************************)
(* SpecUploadTo: document_upload_to applied to one version instance and    *)
(* one file name.  Text is a sequence of characters.                       *)
(***************************************************************************)
\* The longest file name drawn.
MaxNameLen == 215
max_path_length == 255

\* File names by shape and length; the character at a position depends on
\* the position, so that a cut at the head and a cut at the tail differ.
Shapes == {"plain", "spaced", "slashed", "dots"}
Name(shape, n) ==
    [i \in 1..n |->
        CASE shape = "dots" -> "."
          [] shape = "spaced" /\ i % 4 = 1 -> " "
          [] shape = "slashed" /\ i % 5 = 3 -> "/"
          [] i = n - 3 /\ n > 4 -> "."
          [] OTHER -> <<"a", "b", "c">>[(i % 3) + 1]]

\* str(instance.document.owner_uuid): 36 characters
UuidText(u) ==
    [i \in 1..36 |->
        IF i \in {9, 14, 19, 24} THEN "-"
        ELSE IF i = 36 THEN (IF u = "u1" THEN "1" ELSE "2")
        ELSE "0"]

\* str(n) for n >= 0
RECURSIVE Decimal(_)
Decimal(n) ==
    IF n < 10 THEN <<<<"0", "1", "2", "3", "4", "5", "6", "7", "8", "9">>[n + 1]>>
    ELSE Decimal(n \div 10) \o Decimal(n % 10)

Literal_documents == <<"d", "o", "c", "u", "m", "e", "n", "t", "s", "/">>
Literal_temp == <<"t", "e", "m", "p", "/">>
Literal_tmp == <<"t", "m", "p">>

\* str.strip()
strip(s) ==
    LET inked == {i \in 1..Len(s) : s[i] # " "}
    IN  IF inked = {} THEN <<>>
        ELSE SubSeq(s, CHOOSE i \in inked : \A j \in inked : i <= j,
                       CHOOSE i \in inked : \A j \in inked : i >= j)

\* [^-\w.] is removed
Kept(c) == c \notin {" ", "/"}

\* django.utils.text.get_valid_filename
get_valid_filename(name) ==
    LET t == strip(name)
        u == [i \in 1..Len(t) |-> IF t[i] = " " THEN "_" ELSE t[i]]
        s == SelectSeq(u, Kept)
    IN  IF s \in {<<>>, <<".">>, <<".", ".">>}
        THEN [raised |-> "SuspiciousFileOperation", value |-> <<>>]
        ELSE [raised |-> "", value |-> s]

\* The version instances: document.pk set or not, the owner, the version
\* number (0: not assigned yet), the time of the call.
Timestamps == {"now"}
\* str(int(time.time() * 1000)): 13 digits
TimeText(t) == [i \in 1..13 |-> IF i = 1 THEN "1" ELSE IF i = 2 THEN "7" ELSE "0"]
UploadInstances ==
    [type : {"DocumentVersion"}, saved : BOOLEAN, owner_uuid : Uuids,
     version : {0, 1, 12}, temp_id : {"u2"}, time : Timestamps,
     shape : Shapes, length : 0..MaxNameLen]

\* Variant: the excess is cut from the head of the versioned file name.
truncated_head(versioned_filename, excess_length) ==
    SubSeq(versioned_filename, excess_length + 1, Len(versioned_filename))

\* versioned_filename[:-excess_length]
truncated(versioned_filename, excess_length) ==
    SubSeq(versioned_filename, 1, Len(versioned_filename) - excess_length)

document_upload_to(instance, filename) ==
    LET valid == get_valid_filename(filename)
        clean_filename == valid.value
        owner_path == UuidText(instance.owner_uuid)
        versioned_filename ==
            IF instance.version # 0
            THEN <<"v">> \o Decimal(instance.version) \o <<"_">> \o clean_filename
            ELSE Literal_tmp \o TimeText(instance.time) \o <<"_">> \o clean_filename
        all_path == Literal_documents \o owner_path \o <<"/">> \o versioned_filename
    IN  IF valid.raised # "" THEN valid
        ELSE IF ~instance.saved
        THEN [raised |-> "",
              value |-> Literal_documents \o Literal_temp
                          \o UuidText(instance.temp_id) \o <<"/">> \o clean_filename]
        ELSE IF Len(all_path) > max_path_length
        THEN [raised |-> "",
              value |-> Literal_documents \o owner_path \o <<"/">>
                          \o truncated(versioned_filename,
                                       Len(all_path) - max_path_length)]
        ELSE [raised |-> "", value |-> all_path]

InitUploadTo ==
    /\ documents = <<>>
    /\ versions = <<>>
    /\ docLock = [d \in 1..MaxDocs |-> NoProc]
    /\ pc = [p \in Procs |-> "idle"]
    /\ call = [p \in Procs |-> NoCall]
    /\ outcome = NoOutcome
    /\ blobs = {}
    /\ probe \in UploadInstances
    /\ verdict = NoVerdict
    /\ owners = <<>>
    /\ osave = [p \in Procs |-> NoSave]

\* The storage asks for the path of the instance's file.
DocumentUploadTo ==
    /\ ~verdict.done
    /\ verdict' = [done |-> TRUE, codes |-> {},
                   result |-> document_upload_to(probe,
                                                 Name(probe.shape, probe.length))]
    /\ UNCHANGED <<documents, versions, docLock, pc, call, outcome, blobs,
                   probe, owners, osave>>

SpecUploadTo == InitUploadTo /\ [][DocumentUploadTo]_vars


(***************************************************************************)
(* SpecPopulate: the populate_document_owner_uuids command applied to one  *)
(* owner class whose table holds rows without identifier.                  *)
(***************************************************************************)
BatchSizes == {0, 1, 2}

\* What _generate_uuid7() gives for the row with primary key pk: an
\* identifier no stored row holds.
Generated == <<"g1", "g2", "g3", "g4", "g5">>

\* model_class.objects.filter(document_owner_uuid__isnull=True), by primary key
instances_without_uuid(rows, m) ==
    {i \in DOMAIN rows : rows[i].model = m /\ rows[i].document_owner_uuid = None}

\* list(instances_without_uuid[:self.batch_size])
RECURSIVE first_of(_, _)
first_of(pks, n) ==
    IF n = 0 \/ pks = {} THEN <<>>
    ELSE LET least == CHOOSE i \in pks : \A j \in pks : i <= j
         IN  <<least>> \o first_of(pks \ {least}, n - 1)

\* The command at the start of _update_model for class m.  failing holds the
\* instances whose save() raises whenever it is called.
CommandStates(rows) ==
    [type : {"command"}, model : OwnerModels, dry_run : BOOLEAN,
     batch_size : BatchSizes, pc : {"start"}, batch : {<<>>},
     updated_count : {0}, failing : SUBSET DOMAIN rows, failed : {{}},
     before : {rows}]

InitPopulate ==
    /\ documents = <<>>
    /\ versions = <<>>
    /\ docLock = [d \in 1..MaxDocs |-> NoProc]
    /\ pc = [p \in Procs |-> "idle"]
    /\ call = [p \in Procs |-> NoCall]
    /\ outcome = NoOutcome
    /\ blobs = {}
    /\ owners \in LegacyTables
    /\ probe \in CommandStates(owners)
    /\ probe.failing \subseteq instances_without_uuid(owners, probe.model)
    /\ verdict = NoVerdict
    /\ osave = [p \in Procs |-> NoSave]

\* What the command has written to stdout at its end.
Reported(codes) ==
    [done |-> TRUE, codes |-> codes, op |-> "populate_document_owner_uuids"]

\* total_count = instances_without_uuid.count(), the two early returns
UpdateModel ==
    /\ probe.pc = "start"
    /\ LET total_count ==
               Cardinality(instances_without_uuid(owners, probe.model))
       IN  IF total_count = 0
           THEN /\ probe' = [probe EXCEPT !.pc = "done"]
                /\ verdict' = Reported({"all_already_have"})
           ELSE IF probe.dry_run
           THEN /\ probe' = [probe EXCEPT !.pc = "done"]
                /\ verdict' = Reported({"would_update"})
           ELSE /\ probe' = [probe EXCEPT !.pc = "batch"]
                /\ verdict' = verdict
    /\ UNCHANGED <<documents, versions, docLock, pc, call, outcome, blobs,
                   owners, osave>>

\* while True: with transaction.atomic(): batch = list(...[:batch_size]);
\* if not batch: break
FetchBatch ==
    /\ probe.pc = "batch"
    /\ LET batch == first_of(instances_without_uuid(owners, probe.model),
                             probe.batch_size)
       IN  probe' = IF batch = <<>>
                    THEN [probe EXCEPT !.pc = "verify"]
                    ELSE [probe EXCEPT !.pc = "save", !.batch = batch]
    /\ UNCHANGED <<documents, versions, docLock, pc, call, outcome, blobs,
                   owners, verdict, osave>>

\* for instance in batch: try: instance.save(update_fields=[...])
\* except Exception: log and go on
SaveInstance ==
    /\ probe.pc = "save"
    /\ LET pk == Head(probe.batch)
           rest == Tail(probe.batch)
           then == IF rest = <<>> THEN "batch" ELSE "save"
       IN  IF pk \in probe.failing
           THEN /\ owners' = owners
                /\ probe' = [probe EXCEPT !.batch = rest, !.pc = then,
                                          !.failed = @ \cup {pk}]
           ELSE /\ owners' = stored(owners, OwnerInstance(pk, None),
                                    Generated[pk], TRUE)
                /\ probe' = [probe EXCEPT !.batch = rest, !.pc = then,
                                          !.updated_count = @ + 1]
    /\ UNCHANGED <<documents, versions, docLock, pc, call, outcome, blobs,
                   verdict, osave>>

\* remaining_count = ...filter(document_owner_uuid__isnull=True).count()
VerifyUpdate ==
    /\ probe.pc = "verify"
    /\ probe' = [probe EXCEPT !.pc = "done"]
    /\ verdict' =
          Reported((IF instances_without_uuid(owners, probe.model) # {}
                    THEN {"still_without"} ELSE {"all_now_have"})
                   \cup (IF probe.failed # {} THEN {"failed_to_update"} ELSE {}))
    /\ UNCHANGED <<documents, versions, docLock, pc, call, outcome, blobs,
                   owners, osave>>

NextPopulate ==
    \/ UpdateModel
    \/ FetchBatch
    \/ SaveInstance
    \/ VerifyUpdate

SpecPopulate == InitPopulate /\ [][NextPopulate]_vars

\* The command is one sequential program: it takes its next step whenever
\* it has one.
SpecPopulateFair == SpecPopulate /\ WF_vars(NextPopulate)


(***************************************************************************)
(* SpecClean: DocumentVersion.clean applied to one file of one type.       *)
(***************************************************************************)
InitClean ==
    /\ documents = <<>>
    /\ versions = <<>>
    /\ docLock = [d \in 1..MaxDocs |-> NoProc]
    /\ pc = [p \in Procs |-> "idle"]
    /\ call = [p \in Procs |-> NoCall]
    /\ outcome = NoOutcome
    /\ blobs = {}
    /\ probe \in [type : TypeCodes, file : ProbeFiles]
    /\ verdict = NoVerdict
    /\ owners = <<>>
    /\ osave = [p \in Procs |-> NoSave]

\* new_version.clean()
Validate ==
    /\ ~verdict.done
    /\ verdict' = [done |-> TRUE, codes |-> clean_codes(probe.type, probe.file)]
    /\ UNCHANGED <<documents, versions, docLock, pc, call, outcome, blobs,
                   probe, owners, osave>>

SpecClean == InitClean /\ [][Validate]_vars

TypeOK ==
    /\ Len(documents) <= MaxDocs
    /\ Len(versions) <= MaxVersions
    /\ \A p \in Procs : pc[p] \in {"idle", "cwf_version", "snv_save",
                                   "scv_unset", "scv_set"}

(***************************************************************************)
(* Vocabulary of the properties.                                           *)
(***************************************************************************)
CurrentRows(vs, d) == {r \in LiveRows(vs, d) : vs[r].is_current}

\* Position of row r among the non-deleted versions of its document, in
\* creation order.
LiveRank(r) ==
    Cardinality({q \in LiveRows(versions, versions[r].document) : q <= r})

\* Some non-deleted version of document d carries the digest of file f.
HasLiveDup(d, f) ==
    \E r \in LiveRows(versions, d) : versions[r].file_hash = Sha256[f.content]

DupRow(d, f) ==
    CHOOSE r \in LiveRows(versions, d) : versions[r].file_hash = Sha256[f.content]

\* Row r is the one and only row of document d flagged current.
OnlyCurrent(vs, d, r) ==
    \A q \in 1..Len(vs) : vs[q].document = d => (vs[q].is_current <=> q = r)

\* The stored content of row r is the same before and after the step.
Immutable(r) ==
    /\ versions'[r].version = versions[r].version
    /\ versions'[r].file = versions[r].file
    /\ versions'[r].file_hash = versions[r].file_hash
    /\ versions'[r].file_size_bytes = versions[r].file_size_bytes

\* The step ends a call of process p with the given result.
Returned(p, code) == outcome'.proc = p /\ outcome'.result = code

\* The call of process p as the step leaves it: in flight, or just ended.
Input(p) == IF outcome'.proc = p THEN outcome'.call ELSE call'[p]

\* The step is process p entering save_new_version, called directly or by
\* create_with_file, and running it up to the duplicate decision.
EntersSaveNewVersion(p) ==
    /\ pc'[p] # pc[p] \/ outcome'.proc = p
    /\ \/ pc[p] = "idle" /\ Input(p).op = "save_new_version"
       \/ pc[p] = "cwf_version"

\* The file of that call passes the extension and size checks of the type.
InputChecked(p) ==
    clean(documents[Input(p).doc].document_type, Input(p).file) = "ok"

\* The non-deleted version of the call's document with the digest of its file.
InputHasDup(p) == HasLiveDup(Input(p).doc, Input(p).file)
InputDup(p) == DupRow(Input(p).doc, Input(p).file)

\* Non-deleted documents of type t owned by owner o.
CountDocs(ds, o, t) ==
    Cardinality({i \in 1..Len(ds) :
        ds[i].owner_uuid = o /\ ds[i].document_type = t /\ ~ds[i].deleted})

(***************************************************************************)
(* C1. In every committed state, each document has at most one non-deleted *)
(* version with is_current = true, whatever the interleaving of            *)
(* save_new_version and set_current_version calls.                         *)
(***************************************************************************)
C1_AtMostOneCurrent ==
    \A d \in DocIds : Cardinality(CurrentRows(versions, d)) <= 1

\* Two save_new_version calls with set_current=True run at once on one
\* document: one holds its uncommitted row and is about to raise its flag,
\* the other waits for the document row.
C1_Witness ==
    \E p \in Procs, q \in Procs :
        /\ p # q
        /\ call[p].set_current /\ call[q].set_current
        /\ call[p].doc = call[q].doc
        /\ call[p].ins /\ pc[p] = "scv_set" /\ pc[q] = "snv_save"

(***************************************************************************)
(* C2 as stated. The version numbers of the non-deleted versions of a      *)
(* document, in creation order, are 1, 2, ..., n.                          *)
(***************************************************************************)
C2_GaplessFromOne ==
    \A r \in RowIds : ~versions[r].deleted => versions[r].version = LiveRank(r)

(***************************************************************************)
(* C2 as amended. The version numbers of the non-deleted versions of a     *)
(* document are strictly increasing in creation order, and every number    *)
(* from 1 to the highest of them that no non-deleted version carries is    *)
(* the number of a soft-deleted version of that document.                  *)
(***************************************************************************)
C2_IncreasingGapsOnlyDeleted ==
    \A d \in DocIds :
        /\ \A r1 \in LiveRows(versions, d), r2 \in LiveRows(versions, d) :
                r1 < r2 => versions[r1].version < versions[r2].version
        /\ \A r \in LiveRows(versions, d) :
                \A n \in 1..versions[r].version :
                    \E q \in RowIds : versions[q].document = d /\ versions[q].version = n

\* A version was soft-deleted and a later one took a number again.
C2_Witness ==
    \E r \in RowIds, q \in RowIds :
        /\ versions[r].document = versions[q].document
        /\ versions[r].deleted /\ ~versions[q].deleted
        /\ r < q

(***************************************************************************)
(* C3. Two save_new_version calls on one document serialize on the         *)
(* document row lock: they never hold computed version numbers for it at   *)
(* the same time, and the versions they create are numbered consecutively. *)
(***************************************************************************)
C3_Serialized ==
    /\ \A p \in Procs, q \in Procs :
            p # q /\ call[p].ins /\ call[q].ins => call[p].doc # call[q].doc
    /\ \A r \in RowIds : versions[r].version = LiveRank(r)

\* One call holds its numbered, uncommitted row while the other, with other
\* content, waits for the lock on the same document.
C3_Witness ==
    \E p \in Procs, q \in Procs :
        /\ p # q
        /\ call[p].ins /\ pc[q] = "snv_save"
        /\ call[p].doc = call[q].doc
        /\ docLock[call[p].doc] = p
        /\ call[p].file.content # call[q].file.content

(***************************************************************************)
(* C4. create_with_file is all-or-nothing: a document row is persisted     *)
(* only together with its first version, so outside a running              *)
(* create_with_file every document has a version.                          *)
(***************************************************************************)
C4_NoOrphanDocument ==
    \A d \in DocIds :
        \/ \E r \in RowIds : versions[r].document = d
        \/ \E p \in Procs : pc[p] # "idle" /\ call[p].op = "create_with_file"
                                /\ call[p].doc = d

(***************************************************************************)
(* C5 as stated. save_new_version with strict=True and a file whose digest *)
(* equals that of a non-deleted version of the document raises the         *)
(* duplicate-content error and leaves the version table as it was.         *)
(***************************************************************************)
C5_StrictDuplicateRaises ==
    [][\A p \in Procs :
            (EntersSaveNewVersion(p) /\ Input(p).strict /\ InputHasDup(p))
                => /\ Returned(p, "duplicate")
                   /\ versions' = versions]_vars

(***************************************************************************)
(* C5 as amended. With strict=True and a digest equal to that of a         *)
(* non-deleted version of the document, a file that passes the type's      *)
(* extension and size checks raises the duplicate-content error, and a     *)
(* file that fails them raises that check's error; either way the call     *)
(* ends there and the version table is as it was.                          *)
(***************************************************************************)
C5_StrictDuplicateOfCheckedFile ==
    [][\A p \in Procs :
            (EntersSaveNewVersion(p) /\ Input(p).strict /\ InputHasDup(p))
                => /\ pc'[p] = "idle"
                   /\ Returned(p, IF InputChecked(p) THEN "duplicate"
                                  ELSE clean(documents[Input(p).doc].document_type,
                                             Input(p).file))
                   /\ outcome'.ret = 0
                   /\ versions' = versions]_vars

\* A strict call has been refused as a duplicate of a non-deleted version
\* while a soft-deleted version of the document exists as well.
C5_Witness ==
    /\ outcome.result = "duplicate"
    /\ \E r \in RowIds : versions[r].deleted

(***************************************************************************)
(* C6 as stated. save_new_version with strict=False and a file whose       *)
(* digest equals that of an existing version of the document adds no       *)
(* version row and returns that version, its number, hash, size and file   *)
(* unchanged.                                                              *)
(***************************************************************************)
C6_NonStrictReturnsExisting ==
    [][\A p \in Procs :
        /\ (EntersSaveNewVersion(p) /\ ~Input(p).strict /\ InputHasDup(p))
                => /\ Len(versions') = Len(versions)
                   /\ Immutable(InputDup(p))
                   /\ pc'[p] # "snv_save"
                   /\ Input(p).existing = InputDup(p)
                   /\ (pc'[p] = "idle") =>
                        (Returned(p, "ok") /\ outcome'.ret = InputDup(p))
        /\ (pc[p] \in {"scv_unset", "scv_set"} /\ call[p].existing # 0
                /\ pc'[p] # pc[p])
                => /\ Len(versions') = Len(versions)
                   /\ Immutable(call[p].existing)
                   /\ (pc'[p] = "idle") =>
                        (Returned(p, "ok") /\ outcome'.ret = call[p].existing)
      ]_vars

(***************************************************************************)
(* C6 as amended. With strict=False, a file that passes the type's         *)
(* extension and size checks and whose digest equals that of a non-deleted *)
(* version of the document adds no version row and leaves that version's   *)
(* number, hash, size and file unchanged; the call returns that version,   *)
(* unless set_current=True and raising its flag is refused by the          *)
(* one-current constraint because the current version changed meanwhile.   *)
(***************************************************************************)
C6_NonStrictReuseOfCheckedFile ==
    [][\A p \in Procs :
        /\ (EntersSaveNewVersion(p) /\ ~Input(p).strict /\ InputHasDup(p)
                /\ InputChecked(p))
                => /\ Len(versions') = Len(versions)
                   /\ Immutable(InputDup(p))
                   /\ pc'[p] # "snv_save"
                   /\ Input(p).existing = InputDup(p)
                   /\ (pc'[p] = "idle") =>
                        (Returned(p, "ok") /\ outcome'.ret = InputDup(p))
        /\ (pc[p] \in {"scv_unset", "scv_set"} /\ call[p].existing # 0
                /\ pc'[p] # pc[p])
                => /\ Len(versions') = Len(versions)
                   /\ Immutable(call[p].existing)
                   /\ (pc'[p] = "idle") =>
                        (\/ Returned(p, "ok") /\ outcome'.ret = call[p].existing
                         \/ Returned(p, "unique_document_current"))
      ]_vars

\* A non-strict call has returned the existing version it found, which is
\* not the latest version of its document.
C6_Witness ==
    /\ outcome.result = "ok" /\ ~outcome.call.strict
    /\ outcome.call.existing # 0 /\ outcome.ret = outcome.call.existing
    /\ \E q \in RowIds : q > outcome.ret
            /\ versions[q].document = versions[outcome.ret].document

(***************************************************************************)
(* C7 as stated. save_new_version with strict=False and set_current=True   *)
(* whose content matches an existing version V that is not the current one *)
(* promotes V: the call ends with V the only version of the document       *)
(* flagged current.                                                        *)
(***************************************************************************)
C7_PromotesExisting ==
    [][\A p \in Procs :
        /\ (EntersSaveNewVersion(p) /\ ~Input(p).strict /\ Input(p).set_current
                /\ InputHasDup(p)
                /\ InputDup(p) # get_current_version(versions, Input(p).doc))
                => /\ pc'[p] \in {"scv_unset", "scv_set"}
                   /\ call'[p].target = InputDup(p)
        /\ (pc[p] = "scv_set" /\ pc'[p] = "idle"
                /\ call[p].existing \notin {0, call[p].current})
                => /\ Returned(p, "ok")
                   /\ OnlyCurrent(versions', call[p].doc, call[p].existing)
      ]_vars

(***************************************************************************)
(* C7 as amended. With strict=False, set_current=True and a file that      *)
(* passes the type's extension and size checks, whose content matches a    *)
(* non-deleted version V that is not the current one, the call goes on to  *)
(* promote V, and when it returns V is the only version of the document    *)
(* flagged current and the version it read as current is not.              *)
(***************************************************************************)
C7_PromotesExistingOfCheckedFile ==
    [][\A p \in Procs :
        /\ (EntersSaveNewVersion(p) /\ ~Input(p).strict /\ Input(p).set_current
                /\ InputHasDup(p)
                /\ InputDup(p) # get_current_version(versions, Input(p).doc)
                /\ InputChecked(p))
                => /\ pc'[p] \in {"scv_unset", "scv_set"}
                   /\ call'[p].target = InputDup(p)
        /\ (pc[p] = "scv_set" /\ pc'[p] = "idle"
                /\ call[p].existing \notin {0, call[p].current}
                /\ Returned(p, "ok"))
                => /\ OnlyCurrent(versions', call[p].doc, call[p].existing)
                   /\ outcome'.ret = call[p].existing
                   /\ (call[p].current # 0) => ~versions'[call[p].current].is_current
      ]_vars

\* A call has returned after promoting the reused version V: it cleared the
\* flag of the version it read as current, another one, and raised V's.
C7_Witness ==
    /\ outcome.result = "ok"
    /\ outcome.call.op = "save_new_version"
    /\ outcome.call.existing # 0
    /\ outcome.call.current \notin {0, outcome.call.existing}
    /\ outcome.call.unset = outcome.call.current
    /\ OnlyCurrent(versions, outcome.call.doc, outcome.call.existing)

(***************************************************************************)
(* C8. No two non-deleted versions of one document carry the same          *)
(* file_hash, also when two save_new_version calls upload the same bytes   *)
(* to one document at once.                                                *)
(***************************************************************************)
C8_UniqueFileHash ==
    \A d \in DocIds :
        \A r1 \in LiveRows(versions, d), r2 \in LiveRows(versions, d) :
            r1 # r2 => versions[r1].file_hash # versions[r2].file_hash

\* Both uploads passed the duplicate lookup; the second INSERT was refused.
C8_Witness ==
    outcome.result = "unique_document_file_hash"

(***************************************************************************)
(* C9. Once a document has a current version, no step of a                 *)
(* set_current_version or save_new_version call leaves a committed state   *)
(* in which it has none, or two.                                           *)
(***************************************************************************)
C9_FlipIsAtomic ==
    [][\A d \in DocIds :
            Cardinality(CurrentRows(versions, d)) = 1
                => Cardinality(CurrentRows(versions', d)) = 1]_vars

\* Between the two writes of a flip: the old flag is cleared inside the
\* transaction, the committed table still shows the old current version.
C9_Witness ==
    \E p \in Procs :
        /\ pc[p] = "scv_set"
        /\ call[p].unset # 0
        /\ call[p].target # call[p].unset
        /\ CurrentRows(versions, call[p].doc) = {call[p].unset}

(***************************************************************************)
(* C10. When an owner already has max_count_per_owner > 0 non-deleted      *)
(* documents of a type, create_with_file for that owner and type raises    *)
(* max_count_exceeded and creates no document.                             *)
(***************************************************************************)
C10_MaxCountRefused ==
    [][\A p \in Procs, o \in Owners, f \in Files, t \in DocTypes, ti \in Titles :
            ( /\ CallCreateWithFile(p, o, f, t, ti)
              /\ max_count_per_owner[t] > 0
              /\ CountDocs(documents, o, t) >= max_count_per_owner[t] )
                => /\ Returned(p, "max_count_exceeded")
                   /\ documents' = documents]_vars

(***************************************************************************)
(* C11. For a type with max_count_per_owner = N > 0, no owner ever has     *)
(* more than N non-deleted documents of that type, also when several       *)
(* create_with_file calls for the owner and type run at once.              *)
(***************************************************************************)
C11_CountWithinLimit ==
    \A o \in Owners, t \in DocTypes :
        max_count_per_owner[t] > 0
            => CountDocs(documents, o, t) <= max_count_per_owner[t]

(***************************************************************************)
(* C12. Documents are counted and kept apart per owner: whether            *)
(* create_with_file for an owner creates the document depends on that      *)
(* owner's documents only, never on another owner's, and it is never       *)
(* refused for a count; an owner still creates documents of a type after   *)
(* another owner has reached the limit.                                    *)
(***************************************************************************)
C12_OtherOwnerUnaffected ==
    [][\A o \in OwnerPair, f \in Files, t \in DocTypes, ti \in Titles :
            CallCreateWithFile(Client, o, f, t, ti)
                => /\ ~Returned(Client, "max_count_exceeded")
                   /\ IF \E i \in DocIds : /\ documents[i].owner_uuid = o
                                           /\ documents[i].title = ti
                                           /\ ~documents[i].deleted
                        THEN /\ Returned(Client, "unique_owner_document_title")
                             /\ documents' = documents
                        ELSE /\ Len(documents') = Len(documents) + 1
                             /\ documents'[Len(documents')].owner_uuid = o
                             /\ pc'[Client] = "cwf_version"]_vars

\* One owner has reached the limit of the type; after that another owner
\* has created a document of the type, under the same title, with its
\* first version.
C12_Witness ==
    /\ Len(documents) = 2
    /\ documents[1].owner_uuid # documents[2].owner_uuid
    /\ documents[1].title = documents[2].title
    /\ documents[1].document_type = documents[2].document_type
    /\ CountDocs(documents, documents[1].owner_uuid, documents[1].document_type)
            >= max_count_per_owner[documents[1].document_type]
    /\ \A d \in DocIds : CurrentRows(versions, d) # {}

(***************************************************************************)
(* File validation.  What the checks are expected to see is written out    *)
(* per file name and per type, independently of the helpers above.         *)
(***************************************************************************)
\* The suffix of each probe name, lower-cased and without its dot.
SuffixOf(n) ==
    CASE n = name_a_pdf -> "pdf"
      [] n = name_A_PDF -> "pdf"
      [] n = name_a_doc -> "doc"
      [] OTHER          -> ""

\* The allowed list of each type, normalized.
ListedFor(t) ==
    CASE t = "test_limited" -> {"pdf"}
      [] t = "pdf_nodot"    -> {"pdf"}
      [] t = "pdf_upper"    -> {"pdf"}
      [] t = "two_ext"      -> {"pdf", "doc"}
      [] t = "unrestricted" -> {}

ExtensionExpectedBad ==
    ListedFor(probe.type) # {} /\ SuffixOf(probe.file.name) \notin ListedFor(probe.type)

SizeExpectedBad == probe.file.size > max_file_size_mb[probe.type] * 1024 * 1024

\* C13: the file is rejected with invalid_extension exactly when the type's
\* list is non-empty and the normalized suffix of the name is not in the
\* normalized list; an empty list accepts every name; A.PDF passes for a list
\* written 'pdf' or '.pdf'.
C13_ExtensionCheck ==
    verdict.done =>
        /\ ("invalid_extension" \in verdict.codes) <=> ExtensionExpectedBad
        /\ file_extensions[probe.type] = <<>> => "invalid_extension" \notin verdict.codes
        /\ (probe.file.name = name_A_PDF /\ probe.type \in {"pdf_nodot", "test_limited"})
                => "invalid_extension" \notin verdict.codes

C13_Witness ==
    /\ verdict.done
    /\ probe.file.name = name_A_PDF
    /\ probe.type = "pdf_nodot"
    /\ probe.file.size = 1 * MB
    /\ verdict.codes = {}

\* C14: the file is rejected with file_too_large exactly when its size in
\* bytes is strictly greater than max_file_size_mb * 1024 * 1024; a file of
\* exactly the limit is accepted.
C14_TooLargeIffOverLimit ==
    verdict.done =>
        (("file_too_large" \in verdict.codes) <=> SizeExpectedBad)

\* What holds of the size check: among the files that pass the extension
\* check, exactly those over the limit are rejected with file_too_large.
SizeCheckWhenReached ==
    (verdict.done /\ ~ExtensionExpectedBad) =>
        (("file_too_large" \in verdict.codes) <=> SizeExpectedBad)

\* C15: a file with a disallowed extension that also exceeds the size limit
\* is reported with both codes, invalid_extension and file_too_large.
C15_BothCodesReported ==
    (verdict.done /\ ExtensionExpectedBad /\ SizeExpectedBad) =>
        verdict.codes = {"invalid_extension", "file_too_large"}

(***************************************************************************)
(* Failure of save_new_version.                                            *)
(***************************************************************************)
\* Process p takes this step.
Acted(p) == pc'[p] # pc[p] \/ call'[p] # call[p] \/ outcome'.proc = p

\* The errors raised by the validation of the upload, before new_version.save().
ValidationCodes == {"invalid_extension", "file_too_large", "duplicate"}

\* C16: no step of a save_new_version call on an existing document, other
\* than its successful return, changes the committed version rows: when the
\* call fails, no row was added and no is_current flag moved; and a call
\* that fails validation has written nothing to storage.
C16_FailedSaveChangesNothing ==
    [][\A p \in Procs :
        ( /\ Acted(p)
          /\ Input(p).op = "save_new_version"
          /\ ~Returned(p, "ok") )
        => /\ versions' = versions
           /\ documents' = documents
           /\ (outcome'.proc = p /\ outcome'.result \in ValidationCodes)
                    => blobs' = blobs
      ]_vars

\* A save_new_version that had inserted its row has failed while setting the
\* current version, on a document that keeps its earlier version.
C16_Witness ==
    /\ outcome.proc # NoProc
    /\ outcome.call.op = "save_new_version"
    /\ outcome.call.ins
    /\ outcome.result = "unique_document_current"
    /\ CurrentRows(versions, outcome.call.doc) # {}
    /\ \A r \in RowIds : versions[r].file # outcome.call.file.content

(***************************************************************************)
(* Round trip of create_with_file.                                         *)
(***************************************************************************)
\* Every version row of document d, soft-deleted ones included.
AllRows(vs, d) == {r \in 1..Len(vs) : vs[r].document = d}

\* C17: when create_with_file returns, the document has exactly one version,
\* numbered 1, which is its current version; the document was stored under
\* the identifier of the owner passed in, so that the owner's get_documents
\* returns it and another owner's does not.
C17_CreatedDocumentRoundTrip ==
    [][ /\ \A o \in OwnerPair, f \in Files, t \in DocTypes, ti \in Titles :
            (CallCreateWithFile(Client, o, f, t, ti) /\ pc'[Client] = "cwf_version")
            => /\ call'[Client].doc \in get_documents(documents', o)
               /\ \A other \in OwnerPair \ {o} :
                    call'[Client].doc \notin get_documents(documents', other)
        /\ (Returned(Client, "ok") /\ outcome'.call.op = "create_with_file")
            => LET d == outcome'.call.doc
               IN  /\ Cardinality(AllRows(versions', d)) = 1
                   /\ \A r \in AllRows(versions', d) :
                        /\ versions'[r].version = 1
                        /\ versions'[r].is_current
                        /\ get_current_version(versions', d) = r
                        /\ outcome'.ret = r
                   /\ d \in get_documents(documents', documents'[d].owner_uuid)
      ]_vars

\* create_with_file has returned the second document, for the second owner:
\* each owner's query returns its own document.
C17_Witness ==
    /\ outcome.proc = Client
    /\ outcome.call.op = "create_with_file"
    /\ outcome.result = "ok"
    /\ outcome.call.doc = 2
    /\ get_documents(documents, "o1") # {}
    /\ get_documents(documents, "o2") # {}
    /\ get_documents(documents, "o1") \cap get_documents(documents, "o2") = {}

(***************************************************************************)
(* set_current_version with a version of another document.                 *)
(***************************************************************************)
\* The step is process p calling set_current_version.
EntersSetCurrentVersion(p) ==
    pc[p] = "idle" /\ Acted(p) /\ Input(p).op = "set_current_version"

\* C18: set_current_version called with a version of a different document
\* ends at once with a validation error, and no version row of either
\* document changes: every is_current flag stays as it was.
C18_ForeignVersionRefused ==
    [][\A p \in Procs :
        ( /\ EntersSetCurrentVersion(p)
          /\ versions[Input(p).target].document # Input(p).doc )
        => /\ Returned(p, "version_mismatch")
           /\ versions' = versions
           /\ pc'[p] = "idle"
      ]_vars

\* The call was refused while both documents have a current version.
C18_Witness ==
    /\ outcome.proc # NoProc
    /\ outcome.call.op = "set_current_version"
    /\ outcome.result = "version_mismatch"
    /\ Len(documents) = 2
    /\ CurrentRows(versions, 1) # {}
    /\ CurrentRows(versions, 2) # {}
    /\ versions[outcome.call.target].is_current

(***************************************************************************)
(* Owner identifiers.                                                      *)
(***************************************************************************)
\* C19: owner entities saved for the first time by concurrent sessions, with
\* the identifier assigned by save(), all end up persisted (no such save is
\* refused at the INSERT), each with a non-null identifier different from
\* the others'.
C19_ConcurrentFirstSavesDistinct ==
    /\ \A p \in Procs :
            osave[p].generated => osave[p].pc # "integrity_error"
    /\ \A i, j \in 1..Len(owners) :
            (i # j /\ owners[i].generated /\ owners[j].generated)
            => /\ owners[i].document_owner_uuid # "None"
               /\ owners[i].document_owner_uuid # owners[j].document_owner_uuid

\* C20: no two persisted owner entities, of the same class or of different
\* classes, carry the same non-null identifier.
C20_GloballyUnique ==
    \A i, j \in 1..Len(owners) :
        (i # j /\ owners[i].document_owner_uuid # "None")
        => owners[i].document_owner_uuid # owners[j].document_owner_uuid

\* What the constraints give: identifiers are unique within each class.
UniquePerClass ==
    \A i, j \in 1..Len(owners) :
        (i # j /\ owners[i].model = owners[j].model
               /\ owners[i].document_owner_uuid # "None")
        => owners[i].document_owner_uuid # owners[j].document_owner_uuid

(***************************************************************************)
(* Bulk updates of owners.                                                 *)
(***************************************************************************)
\* C21: Model.objects.update(...) and Model.objects.bulk_update(...) leave
\* the identifier of every stored owner as it was, whatever identifier the
\* request carries, and still write the other field of the request to the
\* rows addressed.
C21_BulkUpdateKeepsIdentifier ==
    /\ \A m \in OwnerModels, kwargs \in UpdateRequests :
            LET after == owner_update(owners, m, kwargs)
            IN  /\ Len(after) = Len(owners)
                /\ \A i \in 1..Len(owners) :
                    /\ after[i].document_owner_uuid = owners[i].document_owner_uuid
                    /\ ("name" \in DOMAIN kwargs /\ owners[i].model = m)
                            => after[i].name = kwargs["name"]
    /\ \A pks \in (SUBSET (1..Len(owners))) \ {{}}, obj \in UpdateRequests :
            LET after == owner_bulk_update(owners, pks, obj)
            IN  /\ Len(after) = Len(owners)
                /\ \A i \in 1..Len(owners) :
                    /\ after[i].document_owner_uuid = owners[i].document_owner_uuid
                    /\ ("name" \in DOMAIN obj /\ i \in pks)
                            => after[i].name = obj["name"]

\* A request carrying another identifier and a new name was applied: the
\* name is stored, the identifiers are still those assigned at the saves.
C21_Witness ==
    /\ Len(owners) >= 2
    /\ owners[1].name = "n2"
    /\ owners[2].name = DefaultName
    /\ owners[1].model # owners[2].model
    /\ owners[1].document_owner_uuid = "u1"
    /\ owners[2].document_owner_uuid = "u1"

EmptyArgument ==
    \/ probe.type \in {"list", "tuple"} /\ probe.value = <<>>
    \/ probe.type = "QuerySet" /\ probe.value = {}

\* C23: in_groups called with an empty list, an empty tuple or a group
\* queryset without rows returns the empty result set.
C23_EmptyGivesEmpty ==
    (verdict.done /\ EmptyArgument)
        => verdict.result.error = "none" /\ verdict.result.docs = EmptyBag

C23_Witness ==
    /\ verdict.done
    /\ probe.type = "tuple"
    /\ probe.value = <<>>
    /\ verdict.result.docs = EmptyBag

\* The positions of the list's elements that are neither a DocumentGroup, a
\* UUID, nor a string that reads as a UUID ("not-a-uuid" and 123 here).
Offending ==
    {i \in 1..Len(probe.value) :
        probe.value[i].value \in {"not-a-uuid", "123"}}

\* C24: in_groups given a list with an offending element raises an error
\* and returns no result, and the error shows the position (counted from 0)
\* and the value of an offending element.
C24_ErrorShowsPositionAndValue ==
    (verdict.done /\ probe.type \in {"list", "tuple"} /\ Offending # {})
        => /\ verdict.result.error = "ValueError"
           /\ verdict.result.docs = EmptyBag
           /\ \E i \in Offending :
                /\ verdict.result.index = i - 1
                /\ verdict.result.shown = probe.value[i].value

\* C24, as the code has it: the whole request is refused, and the error
\* shows the position of the first offending element, together with its text
\* when it is a string and with the name of its type otherwise.
C24_ErrorShowsPositionAndValueOrType ==
    (verdict.done /\ probe.type \in {"list", "tuple"} /\ Offending # {})
        => /\ verdict.result.error = "ValueError"
           /\ verdict.result.docs = EmptyBag
           /\ verdict.result.index + 1 \in Offending
           /\ \A i \in Offending : verdict.result.index + 1 <= i
           /\ LET e == probe.value[verdict.result.index + 1]
              IN  verdict.result.shown =
                    IF e.value = "not-a-uuid" THEN "not-a-uuid" ELSE "int"

\* A list whose first element is a known group and whose second is the
\* number 123 was refused, with index 1 and the type name.
C24_Witness ==
    /\ verdict.done
    /\ probe.type = "list"
    /\ Len(probe.value) = 2
    /\ probe.value[1] = [type |-> "UUID", value |-> "g2"]
    /\ probe.value[2] = [type |-> "int", value |-> "123"]
    /\ verdict.result = [error |-> "ValueError", index |-> 1, shown |-> "int", docs |-> EmptyBag]

\* ---- C25 ----
\* The owner the document points at cannot be found: its content type has no
\* model class, or no stored owner of that class has the document's owner_uuid.
OwnerMissing ==
    \/ probe.owner_content_type \notin OwnerModels
    \/ ~\E i \in DOMAIN owners :
          /\ owners[i].model = probe.owner_content_type
          /\ owners[i].document_owner_uuid = probe.owner_uuid

\* C25, as stated: document.owner never raises, and returns None whenever
\* the owner's type resolves to no model class or no entity with the
\* document's owner_uuid exists.
C25_OwnerNeverRaisesNoneWhenMissing ==
    verdict.done
        => /\ verdict.result.raised = ""
           /\ (OwnerMissing => verdict.result.value = NoOwner)

\* C25, as the code has it: document.owner never raises; an access that is not
\* answered from the instance's cache returns None when the owner cannot be
\* found and the stored owner otherwise; every access leaves its result in
\* the cache, and an access answered from the cache returns the cached result
\* whatever the owners table holds by then.
C25_OwnerNeverRaisesNoneWhenMissingUncached ==
    verdict.done
        => /\ verdict.result.raised = ""
           /\ probe.owner_cache = verdict.result.value
           /\ (~verdict.result.cached /\ OwnerMissing
                  => verdict.result.value = NoOwner)
           /\ (~verdict.result.cached /\ ~OwnerMissing
                  => verdict.result.value =
                       [model |-> probe.owner_content_type,
                        document_owner_uuid |-> probe.owner_uuid])

\* The owner was deleted before the first access of an instance whose content
\* type is an owner class, and the access returned None.
C25_Witness ==
    /\ verdict.done
    /\ ~verdict.result.cached
    /\ probe.owner_content_type = "TestCompany"
    /\ OwnerMissing
    /\ verdict.result.value = NoOwner
    /\ verdict.result.raised = ""

\* ---- C26 ----
Accessors ==
    {"get_current_version", "get_version", "get_latest_version",
     "get_latest_version_number", "get_num_versions"}

\* The non-deleted versions of document d, read off the rows.
Undeleted(d) == {r \in RowIds : versions[r].document = d /\ ~versions[r].deleted}

\* What accessor op of document d, asked for number n, has to hand back.
Expected(op, d, n, ret) ==
    LET S == Undeleted(d)
        top == {r \in S : \A q \in S : versions[q].version <= versions[r].version}
        wanted == CASE op = "get_current_version" -> {r \in S : versions[r].is_current}
                    [] op = "get_version" -> {r \in S : versions[r].version = n}
                    [] OTHER -> top
    IN  CASE op = "get_num_versions" -> ret = Cardinality(S)
          [] op = "get_latest_version_number" ->
                IF S = {} THEN ret = 0
                ELSE \E r \in top : ret = versions[r].version
          [] OTHER -> IF wanted = {} THEN ret = 0 ELSE ret \in wanted

TitleTaken(o, ti) ==
    \E i \in DocIds :
        /\ documents[i].owner_uuid = o
        /\ documents[i].title = ti
        /\ ~documents[i].deleted

NoDuplicateTitles ==
    \A i, j \in DocIds :
        (/\ i # j
         /\ ~documents[i].deleted /\ ~documents[j].deleted
         /\ documents[i].owner_uuid = documents[j].owner_uuid)
        => documents[i].title # documents[j].title

\* C27: no two non-deleted documents ever share (owner_uuid, title); a
\* create_with_file for a pair that a non-deleted document holds fails with
\* an error and stores no document, and one for a pair that only soft-deleted
\* documents hold, or none, stores its document.
C27_TitlesUniquePerOwner ==
    [][/\ NoDuplicateTitles'
       /\ \A p \in Procs, o \in OwnerPair, f \in Files, t \in DocTypes, ti \in Titles :
            CallCreateWithFile(p, o, f, t, ti)
            => IF TitleTaken(o, ti)
               THEN /\ documents' = documents
                    /\ versions' = versions
                    /\ outcome'.result = "unique_owner_document_title"
               ELSE /\ Len(documents') = Len(documents) + 1
                    /\ documents'[Len(documents')].owner_uuid = o
                    /\ documents'[Len(documents')].title = ti
                    /\ ~documents'[Len(documents')].deleted]_vars

\* A creation lost the race for a title against a creation by the other
\* handler that is still saving its first version, and nothing was added.
C27_Witness ==
    /\ outcome.result = "unique_owner_document_title"
    /\ outcome.call.op = "create_with_file"
    /\ Len(documents) = 1
    /\ \E q \in Procs : q # outcome.proc /\ pc[q] = "cwf_version" /\ call[q].doc = 1

\* The title of a soft-deleted document was taken again by the same owner.
TitleReused ==
    \E i, j \in DocIds :
        /\ i < j
        /\ documents[i].deleted /\ ~documents[j].deleted
        /\ documents[i].owner_uuid = documents[j].owner_uuid
        /\ documents[i].title = documents[j].title

\* ---- C28 ----
\* The size of the content a stored file holds.
SizeOf(content) == (CHOOSE f \in Files : f.content = content).size

\* The row a step added, if it added one.
Added(r) == r = Len(versions') /\ Len(versions') = Len(versions) + 1

\* The version numbers of the non-deleted versions of document d.
NumbersOf(d) == {versions[r].version : r \in Undeleted(d)}

\* n is (maximum non-deleted version of document d) + 1.
NextNumber(d, n) ==
    n = (IF NumbersOf(d) = {} THEN 0 ELSE SetMax(NumbersOf(d))) + 1

\* The versions persisted by a step through one of the operations ops carry
\* the digest and the size of their stored content, and a version inserted by
\* a step through one of them (committed at once, or pending until its
\* transaction ends) is numbered (maximum non-deleted version) + 1.
StoredAsComputed(ops) ==
    /\ \A r \in 1..Len(versions') :
          (Added(r) /\ outcome'.call.op \in ops)
          => LET row == versions'[r]
             IN  /\ row.file_hash = Sha256[row.file]
                 /\ row.file_size_bytes = SizeOf(row.file)
                 /\ (\A p \in Procs : ~call[p].ins)
                        => NextNumber(row.document, row.version)
    /\ \A p \in Procs :
          (call'[p].ins /\ ~call[p].ins /\ call'[p].op \in ops)
          => NextNumber(call'[p].doc, call'[p].ver)

\* C28: every version that is persisted carries the SHA-256 digest and the
\* size of its stored content, and the number (maximum non-deleted version of
\* its document) + 1 at the time it is inserted, whatever the caller had set
\* on the instance.
C28_MetadataComputedNeverSupplied ==
    [][StoredAsComputed({"save", "save_new_version", "create_with_file"})]_vars

\* What holds: save_new_version and create_with_file, which build the
\* instance themselves, persist only versions with computed values.
ComputedThroughDocument ==
    [][StoredAsComputed({"save_new_version", "create_with_file"})]_vars

\* A version was persisted by save() with a digest that is not its content's.
ForgedHashStored ==
    \E r \in RowIds : versions[r].file_hash # Sha256[versions[r].file]

\* ---- C29 ----
\* C29: create_with_file given a code that no DocumentType carries ends with
\* the invalid-document-type validation error and leaves documents, versions
\* and stored files as they were.
C29_UnknownTypeRefused ==
    [][\A o \in OwnerPair, f \in Files, code \in Codes \ DocTypes, ti \in Titles :
          CreateWithFileByCode(Client, o, f, code, ti)
          => /\ outcome'.result = "invalid_document_type"
             /\ outcome'.call.op = "create_with_file"
             /\ outcome'.ret = 0
             /\ documents' = documents
             /\ versions' = versions
             /\ blobs' = blobs]_vars

\* After one document had been created, a second creation named a code that
\* no type carries and was refused.
C29_Witness ==
    /\ outcome.result = "invalid_document_type"
    /\ Len(documents) = 1
    /\ Len(versions) = 1

\* ---- C30 ----
\* The step ends a save_new_version(file, set_current=True) of new content
\* with success, on a document that had a current version.
SavedNewCurrent ==
    /\ outcome'.call.op = "save_new_version"
    /\ outcome'.result = "ok"
    /\ outcome'.call.set_current
    /\ outcome'.call.existing = 0
    /\ outcome'.call.current # 0

\* C30: when save_new_version succeeds with new content and set_current=True
\* on a document whose current version is V_old, the version it returns is
\* the document's current version and its latest version, it is numbered one
\* above the highest version the document had, and V_old, like every other
\* version of the document, is not current.
C30_NewVersionIsCurrentAndLatest ==
    [][SavedNewCurrent
          => LET d == outcome'.call.doc
                 new == outcome'.ret
                 old == outcome'.call.current
             IN  /\ new \in 1..Len(versions') /\ new \notin RowIds
                 /\ versions'[new].document = d
                 /\ versions'[new].is_current /\ ~versions'[new].deleted
                 /\ get_current_version(versions', d) = new
                 /\ get_latest_version(versions', d) = new
                 /\ NumbersOf(d) # {}
                 /\ versions'[new].version = SetMax(NumbersOf(d)) + 1
                 /\ old \in RowIds /\ old # new
                 /\ versions[old].document = d
                 /\ ~versions'[old].is_current
                 /\ \A r \in LiveRows(versions', d) :
                        r # new => ~versions'[r].is_current]_vars

\* The second version of a document was saved as current: version 2 is
\* returned and current, version 1 no longer is.
C30_Witness ==
    /\ outcome.call.op = "save_new_version"
    /\ outcome.result = "ok"
    /\ outcome.call.set_current
    /\ outcome.call.existing = 0
    /\ outcome.call.current = 1
    /\ outcome.ret = 2
    /\ versions[2].version = 2 /\ versions[2].is_current
    /\ versions[1].version = 1 /\ ~versions[1].is_current /\ ~versions[1].deleted

(***************************************************************************)
(* update_or_create on owners.                                             *)
(***************************************************************************)
\* C31: Model.objects.update_or_create(defaults, **lookup) leaves the
\* identifier of every owner that was already stored as it was, whether or
\* not the defaults name an identifier.
C31_UpdateOrCreateKeepsIdentifier ==
    \A m \in OwnerModels, kwargs \in Lookups, defaults \in Defaults, fresh \in Uuids :
        LET after == owner_update_or_create(owners, m, kwargs, defaults, fresh)
        IN  \A i \in 1..Len(owners) :
                after[i].document_owner_uuid = owners[i].document_owner_uuid

\* What holds: the identifier of a stored owner is kept when the defaults
\* give it as None, or name none while the lookup names one; otherwise the matched
\* owner ends with the identifier of the defaults, or with the generated one
\* when the defaults name none, unless another owner of its class holds it.
UpdateOrCreateIdentifier ==
    \A m \in OwnerModels, kwargs \in Lookups, defaults \in Defaults, fresh \in Uuids :
        LET after == owner_update_or_create(owners, m, kwargs, defaults, fresh)
            hit == matching(owners, m, kwargs)
            kept == IF "document_owner_uuid" \in DOMAIN defaults
                    THEN defaults["document_owner_uuid"] = None
                    ELSE "document_owner_uuid" \in DOMAIN kwargs
            wanted == IF "document_owner_uuid" \in DOMAIN defaults
                      THEN defaults["document_owner_uuid"] ELSE fresh
        IN  \A i \in 1..Len(owners) :
                IF i \in hit /\ Cardinality(hit) = 1 /\ ~kept
                   /\ ~\E j \in 1..Len(owners) :
                          /\ j # i /\ owners[j].model = m
                          /\ owners[j].document_owner_uuid = wanted
                THEN after[i].document_owner_uuid = wanted
                ELSE after[i].document_owner_uuid = owners[i].document_owner_uuid

\* An owner saved with a generated identifier "u1" was renamed through
\* update_or_create and now carries "u2".
IdentifierReplaced ==
    \E i \in 1..Len(owners) :
        /\ owners[i].generated
        /\ owners[i].name = "n2"
        /\ owners[i].document_owner_uuid = "u2"
        /\ \A j \in 1..Len(owners) : j # i => owners[j].document_owner_uuid = "u1"

(***************************************************************************)
(* get_or_create_document_owner_uuid.                                      *)
(***************************************************************************)
\* C32: on an instance that has an identifier,
\* get_or_create_document_owner_uuid returns that identifier and writes
\* nothing, and every call and save leaves the instance with the same
\* identifier and the identifiers of the other stored owners as they were.
C32_GetOrCreateIdempotent ==
    [][(verdict'.done /\ probe.document_owner_uuid # None)
          => /\ probe'.document_owner_uuid = probe.document_owner_uuid
             /\ probe'.pk = probe.pk
             /\ Len(owners') = Len(owners)
             /\ \A j \in 1..Len(owners) :
                    j # probe.pk => owners'[j] = owners[j]
             /\ owners'[probe.pk].document_owner_uuid
                    \in {owners[probe.pk].document_owner_uuid,
                         probe.document_owner_uuid}
             /\ (verdict'.op = "get_or_create_document_owner_uuid")
                    => /\ verdict'.result = probe.document_owner_uuid
                       /\ verdict'.codes = {}
                       /\ owners' = owners]_vars

\* An identifier generated by an earlier call is stored, and a further call
\* on the instance returned it.
C32_Witness ==
    /\ verdict.done
    /\ verdict.op = "get_or_create_document_owner_uuid"
    /\ verdict.codes = {}
    /\ verdict.result = probe.document_owner_uuid
    /\ owners[probe.pk].generated
    /\ owners[probe.pk].document_owner_uuid = verdict.result
    /\ \E j \in 1..Len(owners) :
          j # probe.pk /\ owners[j].document_owner_uuid = None

(***************************************************************************)
(* The documents in_groups returns.                                        *)
(***************************************************************************)
\* The group an accepted element names, whatever its form.
GroupNamed(e) ==
    CASE e.value \in {"g1", "g1-text", "{g1-text}"} -> "g1"
      [] e.value \in {"g2", "g2-text"} -> "g2"
      [] OTHER -> e.value

\* The groups the argument names.
GroupsGiven ==
    CASE probe.type = "QuerySet" -> probe.value
      [] probe.type = "DocumentGroup" -> {probe.value}
      [] OTHER -> {GroupNamed(probe.value[i]) : i \in 1..Len(probe.value)}

\* The argument is one in_groups accepts.
Accepted ==
    \/ probe.type \in {"QuerySet", "DocumentGroup"}
    \/ probe.type \in {"list", "tuple"} /\ Offending = {}

\* C33: in_groups returns the non-deleted documents that belong to at least
\* one of the groups the argument names, each of them once, and nothing
\* else; the result depends on the groups named only, not on the form in
\* which they are passed or on how often.
C33_ExactlyTheDocumentsOfTheGroups ==
    (verdict.done /\ Accepted)
        => /\ verdict.result.error = "none"
           /\ verdict.result.docs =
                [d \in {e \in GroupedDocs :
                            /\ e \notin DeletedDocs
                            /\ DocGroups[e] \cap GroupsGiven # {}} |-> 1]

\* Group g1 passed as an instance and group g2 as a UUID: document 1, which
\* is in both, is returned once, document 2 once, and the soft-deleted
\* document 4 of g1 is not returned.
C33_Witness ==
    /\ verdict.done
    /\ probe.type = "list"
    /\ Len(probe.value) = 2
    /\ probe.value[1] = [type |-> "DocumentGroup", value |-> "g1"]
    /\ probe.value[2] = [type |-> "UUID", value |-> "g2"]
    /\ verdict.result.docs = (1 :> 1) @@ (2 :> 1)

\* ---- C34 ----
\* The owner the instance's fields name.
OwnerNamed == [model |-> probe.owner_content_type,
               document_owner_uuid |-> probe.owner_uuid]

\* C34: after set_owner(o2) the instance's owner_uuid is o2's identifier and
\* its content type o2's class, and document.owner resolves to o2 from the
\* database, not from the cache, whatever owner the instance had cached; at
\* any time an owner held in the cache is the one the instance's fields name,
\* so no access returns an owner that set_owner has replaced.
C34_SetOwnerDropsCachedOwner ==
    /\ ("set_owner" \in DOMAIN verdict)
          => /\ probe.owner_uuid = verdict.set_owner.to.document_owner_uuid
             /\ probe.owner_content_type = verdict.set_owner.to.model
             /\ owner(owners, probe) =
                  [raised |-> "", value |-> OwnerNamed, cached |-> FALSE]
    /\ (probe.owner_cache \notin {NotCached, NoOwner})
          => probe.owner_cache = OwnerNamed

\* set_owner was called with an owner other than the one the instance had
\* resolved and cached.
C34_Witness ==
    /\ "set_owner" \in DOMAIN verdict
    /\ verdict.set_owner.was \notin {NotCached, NoOwner}
    /\ verdict.set_owner.was # OwnerNamed
    /\ owner(owners, probe).value = OwnerNamed

\* ---- C35 ----
\* documents/<owner_uuid>/v<version>_
PathPrefix ==
    Literal_documents \o UuidText(probe.owner_uuid) \o <<"/", "v">>
        \o Decimal(probe.version) \o <<"_">>

\* The path of the claim before any cut
WholePath ==
    PathPrefix \o get_valid_filename(Name(probe.shape, probe.length)).value

\* C35: for a version with a number, of a saved document, the path returned
\* is documents/<owner_uuid>/v<version>_<sanitized filename> when that has
\* at most 255 characters, and its first 255 characters otherwise: never
\* longer than 255, cut at the tail only, the prefix up to the underscore
\* after the version kept whole.
C35_PathShapeAndLength ==
    (/\ verdict.done
     /\ verdict.result.raised = ""
     /\ probe.saved
     /\ probe.version # 0)
        => LET path == verdict.result.value
           IN  /\ Len(path) <= 255
               /\ Len(WholePath) <= 255 => path = WholePath
               /\ Len(WholePath) > 255 => path = SubSeq(WholePath, 1, 255)
               /\ Len(path) >= Len(PathPrefix)
               /\ SubSeq(path, 1, Len(PathPrefix)) = PathPrefix

\* A file name whose whole path would have 265 characters was cut to 255.
C35_Witness ==
    /\ verdict.done
    /\ probe.saved
    /\ probe.version = 12
    /\ probe.shape = "plain"
    /\ Len(WholePath) = 265
    /\ Len(verdict.result.value) = 255
    /\ verdict.result.value # WholePath

\* ---- C36 ----
\* The step ends a save_new_version(file, set_current=False) of new content
\* with success.
SavedNewNotCurrent ==
    /\ outcome'.call.op = "save_new_version"
    /\ outcome'.result = "ok"
    /\ ~outcome'.call.set_current
    /\ outcome'.call.existing = 0

\* C36: when save_new_version succeeds with new content and
\* set_current=False, the version it returns is a new row of the document
\* that is not current, every row stored before is as it was, its is_current
\* flag included, and the document's current version is the one it had.
C36_NotCurrentLeavesFlags ==
    [][SavedNewNotCurrent
          => LET d == outcome'.call.doc
                 new == outcome'.ret
             IN  /\ new \in 1..Len(versions') /\ new \notin RowIds
                 /\ versions'[new].document = d
                 /\ ~versions'[new].is_current
                 /\ \A r \in RowIds :
                        versions'[r].is_current = versions[r].is_current
                 /\ \A r \in RowIds : versions'[r] = versions[r]
                 /\ get_current_version(versions', d)
                        = get_current_version(versions, d)]_vars

\* A second version was saved with set_current=False: version 2 is returned
\* and is not current, version 1 still is.
C36_Witness ==
    /\ outcome.call.op = "save_new_version"
    /\ outcome.result = "ok"
    /\ ~outcome.call.set_current
    /\ outcome.call.existing = 0
    /\ outcome.ret = 2
    /\ versions[2].version = 2 /\ ~versions[2].is_current
    /\ versions[1].version = 1 /\ versions[1].is_current

\* ---- C37 ----
\* Rows of the command's class without identifier
StillNull == instances_without_uuid(owners, probe.model)

\* The command ended and reported neither a failed instance nor instances
\* still without identifier.
EndedClean ==
    /\ verdict.done
    /\ verdict.codes \cap {"failed_to_update", "still_without"} = {}

\* C37, as stated: the command terminates for every table, also when the
\* save of some instance raises an error that is caught and logged; when it
\* has ended without --dry-run and without reported failures no row of the
\* class is without identifier; with --dry-run the table is never changed.
C37_PopulateTerminates ==
    /\ <>(probe.pc = "done")
    /\ []((EndedClean /\ ~probe.dry_run) => StillNull = {})
    /\ [](probe.dry_run => owners = probe.before)

\* What holds: the command terminates when no save raises, and in any case
\* as long as each batch leaves fewer rows without identifier; the two
\* safety parts of C37 hold as stated.
PopulateEndsUnlessSaveRaises ==
    /\ (probe.failing = {}) => <>(probe.pc = "done")
    /\ []((EndedClean /\ ~probe.dry_run) => StillNull = {})
    /\ [](probe.dry_run => owners = probe.before)

\* The command fetches, again, a batch made of instances whose save has
\* already failed.
SameBatchAgain ==
    /\ probe.pc = "save"
    /\ probe.batch # <<>>
    /\ \A i \in 1..Len(probe.batch) : probe.batch[i] \in probe.failed
====
